---- MODULE Spec2Model ----
(***************************************************************************)
(* A model of tiny_pacs: the event bus (event_bus.py), the storage index   *)
(* (storage.py) and the query engine's C-STORE / C-FIND / C-MOVE paths     *)
(* (pacs/component.py and the level APIs).                                 *)
(*                                                                         *)
(* Several specifications share the definitions that model the code; each  *)
(* one drives a part of the program with its own inputs:                   *)
(*   SpecBus      subscribe / unsubscribe and the four delivery modes      *)
(*   SpecStorage  the in-memory storage backend and its events             *)
(*   SpecIndex    C-STORE on the entity tables                             *)
(*   SpecFlow     C-STORE through the server, then C-FIND and C-MOVE       *)
(***************************************************************************)
EXTENDS Integers, Sequences, FiniteSets, TLC

(***************************************************************************)
(* Bounds and input sets                                                   *)
(***************************************************************************)
\* number of distinct callbacks the bus is driven with
NumHandlers == 2

\* number of subscriptions (entries of EventBus._priorities) the bus is driven to
MaxSubscriptions == 2

\* number of SOP instance UIDs the storage and the index are driven with
NumInstances == 2

\* number of SOP class UIDs
NumClasses == 2

\* number of instances a C-MOVE request may select
MaxMoveInstances == 3

\* length of the text values and of the patterns a text filter is tried on
MaxTextLen == 2

\* number of digits of a date of the model (a DA value has 8)
DateLen == 2

\* number of keys of a C-FIND request besides QueryRetrieveLevel
MaxKeys == 2

\* Python's None where a value of the model is a tuple
NoneV == <<>>

\* no exception
NoError == <<>>

Handlers == 1..NumHandlers

\* priorities handed to subscribe (the tests use 40 and 60, the default is 50)
Priorities == {40, 50, 60}

\* subscribe's priority argument: <<p>>, or <<>> for priority=None
PriorityArgs == {<<p>> : p \in Priorities} \cup {NoneV}

\* event_bus.py:70, the priority of a callback subscribed with priority=None
DefaultPriority == 50

\* EventBus.default_channels: always present in EventBus.listeners
DefaultChannels == {"on-start", "on-started", "on-exit"}

\* the channels the model subscribes to and dispatches on
BusChannels == {"on-exit", "test-channel"}

SopUids == 1..NumInstances

SopClasses == 1..NumClasses

\* the identifiers the datasets given to the index are drawn from
PatientIds == {1, 2}

PatientNames == {"doe", "DOE", "roe"}

StudyUids == {1, 2}

SeriesUids == {1, 2}

IndexSopUids == {1, 2}

\* an attribute that may be absent: <<v>> or <<>>
Optional(S) == {<<v>> : v \in S} \cup {NoneV}

\* what one call of a callback does: return None, return a value, raise
Outcomes == {"none", "value", "raise"}

VARIABLES
    listeners,    \* EventBus.listeners: a dictionary channel -> set of callbacks;
                  \* the set is kept as the sequence in which Python iterates it
    priorities,   \* EventBus._priorities: a dictionary <<channel, callback>> -> priority
    dispatch,     \* the dispatch made by the last call, if it was one: what was
                  \* called, returned and raised
    storageFiles, \* the StorageFiles table: sop_instance_uid -> row
    tempFiles,    \* InMemoryStorage._temp_files: sop_instance_uid -> file written so far
    storedFiles,  \* InMemoryStorage._stored_files: sop_instance_uid -> parsed dataset
    doneFired,    \* history: the records ON_STORE_DONE was delivered for
    lastEvent,    \* history: the last event delivered to the storage and its outcome
    patientRows,  \* the rows of the Patient table
    studyRows,    \* the rows of the Study table
    seriesRows,   \* the rows of the Series table
    instanceRows, \* the rows of the Instance table
    lastStore,    \* history: the last call of PACS.c_store and its outcome
    inProgress,   \* the C-STOREs in progress: the SOP instance UIDs whose file the
                  \* front-end holds and has not yet sent to STORE
    lastRequest,  \* history: the last request handled and its outcome
    move,         \* the C-MOVE being served by qr_move_scp: its local variables, its
                  \* position, and what it has sent and opened so far
    ae,           \* the AE front-end: AE.valid_aet and AE.dump_ds
    lastCall,     \* history: the last transport callback of the AE and its outcome
    devices,      \* Devices.devices: a dictionary AE title -> device entry
    devicesCfg,   \* Devices.auto_add and Devices.default_port
    lastDev,      \* history: the last event delivered to Devices and its outcome
    regThreads,   \* the threads serving associations: where each is in
                  \* Devices.add_device_from_asce, and its local variables
    lookups,      \* history: AE title -> the entries DEVICE_BY_AE has returned for it
    fsFolder,     \* whether the dated folder of FileStorage exists
    fsFiles,      \* the files in that folder: path -> the calls of on_get_file
                  \* that opened the path for writing, in order
    fsThreads,    \* the threads serving C-STOREs: where each is in
                  \* FileStorage.on_get_file, and its local variables
    lastQuery     \* history: the last query resolved by the query engine (a C-FIND,
                  \* the instances of a C-MOVE, one filter) and its outcome

busVars == <<listeners, priorities, dispatch>>

storageVars == <<storageFiles, tempFiles, storedFiles, doneFired, lastEvent>>

indexVars == <<patientRows, studyRows, seriesRows, instanceRows, lastStore>>

flowVars == <<inProgress, lastRequest>>

moveVars == <<move>>

aeVars == <<ae, lastCall>>

devVars == <<devices, devicesCfg, lastDev, regThreads, lookups>>

fsVars == <<fsFolder, fsFiles, fsThreads>>

queryVars == <<lastQuery>>

notBusVars == <<storageVars, indexVars, flowVars, moveVars, aeVars, devVars, fsVars, queryVars>>

notStorageVars == <<busVars, indexVars, flowVars, moveVars, aeVars, devVars, fsVars, queryVars>>

notIndexVars == <<busVars, storageVars, flowVars, moveVars, aeVars, devVars, fsVars, queryVars>>

notMoveVars == <<busVars, storageVars, indexVars, flowVars, aeVars, devVars, fsVars, queryVars>>

notAEVars == <<storageVars, indexVars, flowVars, moveVars, devVars, fsVars, queryVars>>

notDevVars == <<busVars, storageVars, indexVars, flowVars, moveVars, aeVars, fsVars, queryVars>>

vars == <<busVars, storageVars, indexVars, flowVars, moveVars, aeVars, devVars, fsVars, queryVars>>

(***************************************************************************)
(* Sequences and dictionaries                                              *)
(***************************************************************************)
Range(s) == {s[i] : i \in 1..Len(s)}

\* s with x put in at position i (1..Len(s)+1)
InsertAt(s, i, x) == SubSeq(s, 1, i - 1) \o <<x>> \o SubSeq(s, i, Len(s))

\* s without the elements equal to x
RECURSIVE Without(_, _)
Without(s, x) ==
    IF s = <<>> THEN <<>>
    ELSE IF Head(s) = x THEN Without(Tail(s), x)
         ELSE <<Head(s)>> \o Without(Tail(s), x)

\* d[k] = v, the key added when it is new
DictSet(d, k, v) == [x \in DOMAIN d \cup {k} |-> IF x = k THEN v ELSE d[x]]

\* del d[k]
DictDel(d, k) == [x \in DOMAIN d \ {k} |-> d[x]]

\* pairs <<key, value>>: p put into the sorted sequence s after every element
\* whose key is not larger (what a stable sort does with equal keys)
RECURSIVE InsertByKey(_, _)
InsertByKey(s, p) ==
    IF s = <<>> THEN <<p>>
    ELSE IF Head(s)[1] <= p[1] THEN <<Head(s)>> \o InsertByKey(Tail(s), p)
         ELSE <<p>> \o s

\* sorted(pairs, key=operator.itemgetter(0)): stable
RECURSIVE SortedByKey(_)
SortedByKey(s) ==
    IF s = <<>> THEN <<>>
    ELSE InsertByKey(SortedByKey(SubSeq(s, 1, Len(s) - 1)), s[Len(s)])

(***************************************************************************)
(* event_bus.py                                                            *)
(***************************************************************************)
ListenerSet(ch) == IF ch \in DOMAIN listeners THEN Range(listeners[ch]) ELSE {}

\* a dispatch that has called nothing
NewDispatch(mode, ch, sorted, beh) ==
    [mode |-> mode, channel |-> ch, calls |-> <<>>, results |-> <<>>,
     raised |-> NoError, returned |-> NoneV, sorted |-> sorted, beh |-> beh]

\* no dispatch was made by the last call
NoDispatch == NewDispatch("none", "", <<>>, [h \in Handlers |-> "none"])

\* EventBus.__init__
BusInit ==
    /\ listeners = [ch \in DefaultChannels |-> <<>>]
    /\ priorities = <<>>
    /\ dispatch = NoDispatch

\* EventBus.subscribe: attr is the callback's own `priority` attribute, if any
Subscribe(ch, cb, priority, attr) ==
    LET callbacks == IF ch \in DOMAIN listeners THEN listeners[ch] ELSE <<>>
        prio == IF priority # NoneV THEN priority[1]
                ELSE IF attr # NoneV THEN attr[1] ELSE DefaultPriority
    IN  /\ IF cb \in Range(callbacks)
           THEN listeners' = DictSet(listeners, ch, callbacks)
           ELSE \E i \in 1..(Len(callbacks) + 1) :
                    listeners' = DictSet(listeners, ch, InsertAt(callbacks, i, cb))
        /\ priorities' = DictSet(priorities, <<ch, cb>>, prio)
        /\ dispatch' = NoDispatch

\* faulty variant of Unsubscribe: the entry of the priority table is left
UnsubscribeKeepsPriority(ch, cb) ==
    /\ IF ch \in DOMAIN listeners /\ listeners[ch] # <<>> /\ cb \in Range(listeners[ch])
       THEN /\ listeners' = [listeners EXCEPT ![ch] = Without(@, cb)]
            /\ priorities' = priorities
       ELSE UNCHANGED <<listeners, priorities>>
    /\ dispatch' = NoDispatch

\* EventBus.unsubscribe
Unsubscribe(ch, cb) ==
    /\ IF ch \in DOMAIN listeners /\ listeners[ch] # <<>> /\ cb \in Range(listeners[ch])
       THEN /\ listeners' = [listeners EXCEPT ![ch] = Without(@, cb)]
            /\ priorities' = DictDel(priorities, <<ch, cb>>)
       ELSE UNCHANGED <<listeners, priorities>>
    /\ dispatch' = NoDispatch

\* faulty variant of SortListeners: the pairs are left in the set's iteration order
SortListenersUnsorted(ch) ==
    IF ch \notin DOMAIN listeners
    THEN [error |-> <<"KeyError">>, pairs |-> <<>>]
    ELSE [error |-> NoError,
          pairs |-> [i \in 1..Len(listeners[ch]) |->
                        <<priorities[<<ch, listeners[ch][i]>>], listeners[ch][i]>>]]

\* EventBus._sort_listeners: the pairs <<priority, listener>> sorted by priority;
\* a KeyError when the channel or a listener's priority is in no dictionary
SortListeners(ch) ==
    IF ch \notin DOMAIN listeners
    THEN [error |-> <<"KeyError">>, pairs |-> <<>>]
    ELSE IF \E l \in Range(listeners[ch]) : <<ch, l>> \notin DOMAIN priorities
         THEN [error |-> <<"KeyError">>, pairs |-> <<>>]
         ELSE [error |-> NoError,
               pairs |-> SortedByKey([i \in 1..Len(listeners[ch]) |->
                            <<priorities[<<ch, listeners[ch][i]>>], listeners[ch][i]>>])]

\* the value a callback returns
ResultOf(l, beh) == IF beh[l] = "value" THEN <<"result", l>> ELSE NoneV

\* the exception a callback raises
ErrorOf(l) == <<"error", l>>

\* faulty variant of BroadcastLoop: the listeners after the one that raised are
\* still called, and the first exception is raised at the end
RECURSIVE BroadcastLoopCallsAll(_, _, _)
BroadcastLoopCallsAll(sorted, beh, acc) ==
    IF sorted = <<>>
    THEN IF acc.raised = NoError THEN [acc EXCEPT !.returned = acc.results] ELSE acc
    ELSE LET l == Head(sorted)[2]
         IN  IF beh[l] = "raise"
             THEN BroadcastLoopCallsAll(Tail(sorted), beh,
                      [acc EXCEPT !.calls = Append(@, l),
                                  !.raised = IF @ = NoError THEN <<"error", l>> ELSE @])
             ELSE BroadcastLoopCallsAll(Tail(sorted), beh,
                      [acc EXCEPT !.calls = Append(@, l),
                                  !.results = Append(@, ResultOf(l, beh))])

\* the loop of EventBus.broadcast over the sorted pairs
RECURSIVE BroadcastLoop(_, _, _)
BroadcastLoop(sorted, beh, acc) ==
    IF sorted = <<>> THEN [acc EXCEPT !.returned = acc.results]
    ELSE LET l == Head(sorted)[2]
         IN  IF beh[l] = "raise"
             THEN [acc EXCEPT !.calls = Append(@, l), !.raised = ErrorOf(l)]
             ELSE BroadcastLoop(Tail(sorted), beh,
                      [acc EXCEPT !.calls = Append(@, l),
                                  !.results = Append(@, ResultOf(l, beh))])

\* faulty variant of NothrowLoop: the flag is set as the docstring of
\* broadcast_nothrow words it (True when no exception occurred)
RECURSIVE NothrowLoopFlagInverted(_, _, _)
NothrowLoopFlagInverted(sorted, beh, acc) ==
    IF sorted = <<>> THEN [acc EXCEPT !.returned = acc.results]
    ELSE LET l == Head(sorted)[2]
         IN  NothrowLoopFlagInverted(Tail(sorted), beh,
                 [acc EXCEPT !.calls = Append(@, l),
                             !.results = Append(@,
                                 IF beh[l] = "raise" THEN <<<<"error", l>>, FALSE>>
                                 ELSE <<ResultOf(l, beh), TRUE>>)])

\* the loop of EventBus.broadcast_nothrow
RECURSIVE NothrowLoop(_, _, _)
NothrowLoop(sorted, beh, acc) ==
    IF sorted = <<>> THEN [acc EXCEPT !.returned = acc.results]
    ELSE LET l == Head(sorted)[2]
         IN  NothrowLoop(Tail(sorted), beh,
                 [acc EXCEPT !.calls = Append(@, l),
                             !.results = Append(@,
                                 IF beh[l] = "raise" THEN <<ErrorOf(l), TRUE>>
                                 ELSE <<ResultOf(l, beh), FALSE>>)])

\* faulty variant of SendAnyLoop: the listeners after the first one that
\* returned a value are still called, and the last value is returned
RECURSIVE SendAnyLoopNoShortCircuit(_, _, _)
SendAnyLoopNoShortCircuit(sorted, beh, acc) ==
    IF sorted = <<>> THEN acc
    ELSE LET l == Head(sorted)[2]
         IN  IF beh[l] = "raise"
             THEN [acc EXCEPT !.calls = Append(@, l), !.raised = ErrorOf(l)]
             ELSE IF ResultOf(l, beh) # NoneV
                  THEN SendAnyLoopNoShortCircuit(Tail(sorted), beh,
                           [acc EXCEPT !.calls = Append(@, l),
                                       !.returned = ResultOf(l, beh)])
                  ELSE SendAnyLoopNoShortCircuit(Tail(sorted), beh,
                           [acc EXCEPT !.calls = Append(@, l)])

\* the loop of EventBus.send_any
RECURSIVE SendAnyLoop(_, _, _)
SendAnyLoop(sorted, beh, acc) ==
    IF sorted = <<>> THEN acc
    ELSE LET l == Head(sorted)[2]
         IN  IF beh[l] = "raise"
             THEN [acc EXCEPT !.calls = Append(@, l), !.raised = ErrorOf(l)]
             ELSE IF ResultOf(l, beh) # NoneV
                  THEN [acc EXCEPT !.calls = Append(@, l),
                                   !.returned = ResultOf(l, beh)]
                  ELSE SendAnyLoop(Tail(sorted), beh,
                           [acc EXCEPT !.calls = Append(@, l)])

\* EventBus.broadcast
BroadcastResult(ch, beh) ==
    IF ch \notin DOMAIN listeners
    THEN [NewDispatch("broadcast", ch, <<>>, beh) EXCEPT !.returned = <<>>]
    ELSE LET sorted == SortListeners(ch)
             d == NewDispatch("broadcast", ch, sorted.pairs, beh)
         IN  IF sorted.error # NoError THEN [d EXCEPT !.raised = sorted.error]
             ELSE BroadcastLoop(sorted.pairs, beh, d)

\* EventBus.broadcast_nothrow
BroadcastNothrowResult(ch, beh) ==
    IF ch \notin DOMAIN listeners
    THEN [NewDispatch("broadcast_nothrow", ch, <<>>, beh) EXCEPT !.returned = <<>>]
    ELSE LET sorted == SortListeners(ch)
             d == NewDispatch("broadcast_nothrow", ch, sorted.pairs, beh)
         IN  IF sorted.error # NoError THEN [d EXCEPT !.raised = sorted.error]
             ELSE NothrowLoop(sorted.pairs, beh, d)

\* faulty variant of SendOneResult: the last listener of the sorted list is taken
SendOneResultLast(ch, beh) ==
    LET sorted == SortListeners(ch)
        d == NewDispatch("send_one", ch, sorted.pairs, beh)
    IN  IF sorted.error # NoError THEN [d EXCEPT !.raised = sorted.error]
        ELSE IF sorted.pairs = <<>> THEN [d EXCEPT !.raised = <<"NoListenersError">>]
        ELSE LET l == sorted.pairs[Len(sorted.pairs)][2]
             IN  IF beh[l] = "raise"
                 THEN [d EXCEPT !.calls = <<l>>, !.raised = <<"error", l>>]
                 ELSE [d EXCEPT !.calls = <<l>>, !.returned = ResultOf(l, beh)]

\* EventBus.send_one
SendOneResult(ch, beh) ==
    LET sorted == SortListeners(ch)
        d == NewDispatch("send_one", ch, sorted.pairs, beh)
    IN  IF sorted.error # NoError THEN [d EXCEPT !.raised = sorted.error]
        ELSE IF sorted.pairs = <<>> THEN [d EXCEPT !.raised = <<"NoListenersError">>]
        ELSE LET l == sorted.pairs[1][2]
             IN  IF beh[l] = "raise"
                 THEN [d EXCEPT !.calls = <<l>>, !.raised = ErrorOf(l)]
                 ELSE [d EXCEPT !.calls = <<l>>, !.returned = ResultOf(l, beh)]

\* EventBus.send_any
SendAnyResult(ch, beh) ==
    LET sorted == SortListeners(ch)
        d == NewDispatch("send_any", ch, sorted.pairs, beh)
    IN  IF sorted.error # NoError THEN [d EXCEPT !.raised = sorted.error]
        ELSE SendAnyLoop(sorted.pairs, beh, d)

\* what the callbacks that are not on the channel would do is no input
BehavioursOn(ch) ==
    {beh \in [Handlers -> Outcomes] :
        \A h \in Handlers : h \notin ListenerSet(ch) => beh[h] = "none"}

Broadcast(ch, beh) ==
    /\ dispatch' = BroadcastResult(ch, beh)
    /\ UNCHANGED <<listeners, priorities>>

BroadcastNothrow(ch, beh) ==
    /\ dispatch' = BroadcastNothrowResult(ch, beh)
    /\ UNCHANGED <<listeners, priorities>>

SendOne(ch, beh) ==
    /\ dispatch' = SendOneResult(ch, beh)
    /\ UNCHANGED <<listeners, priorities>>

SendAny(ch, beh) ==
    /\ dispatch' = SendAnyResult(ch, beh)
    /\ UNCHANGED <<listeners, priorities>>

(***************************************************************************)
(* Datasets                                                                *)
(***************************************************************************)
\* a DICOM dataset as the program reads it: the attributes the index and the
\* storage look at, each <<value>> or <<>> when the dataset does not carry it;
\* decodable is FALSE for bytes that pydicom.dcmread cannot parse
Dataset(pid, pname, study, series, sop, cls) ==
    [decodable |-> TRUE, PatientID |-> pid, PatientName |-> pname,
     StudyInstanceUID |-> study, SeriesInstanceUID |-> series,
     SOPInstanceUID |-> sop, SOPClassUID |-> cls]

\* bytes that are no DICOM dataset; also stands for an object without dataset
\* attributes (the file object PACS.on_store is handed)
Garbage ==
    [decodable |-> FALSE, PatientID |-> NoneV, PatientName |-> NoneV,
     StudyInstanceUID |-> NoneV, SeriesInstanceUID |-> NoneV,
     SOPInstanceUID |-> NoneV, SOPClassUID |-> NoneV]

\* the dataset pydicom reads from a file that holds the meta header only
EmptyDataset == Dataset(NoneV, NoneV, NoneV, NoneV, NoneV, NoneV)

\* pydicom.dcmread of an in-memory file: buf is <<>> after write_meta and
\* <<payload>> once the received bytes were written after the header
Dcmread(buf) ==
    IF buf = <<>> THEN [raised |-> NoError, ds |-> EmptyDataset]
    ELSE IF ~buf[1].decodable THEN [raised |-> <<"InvalidDicomError">>, ds |-> Garbage]
    ELSE [raised |-> NoError, ds |-> buf[1]]

(***************************************************************************)
(* storage.py: StorageFiles, StorageBase, InMemoryStorage                  *)
(* A storage state st is [files, temp, stored]: the StorageFiles table as  *)
(* a dictionary sop_instance_uid -> row, InMemoryStorage._temp_files and   *)
(* InMemoryStorage._stored_files.                                          *)
(***************************************************************************)
EmptyStorage == [files |-> <<>>, temp |-> <<>>, stored |-> <<>>]

\* faulty variant of StorageFilesRow: the row is created as stored
StorageFilesRowStored(cls, fileName) ==
    [sop_class_uid |-> cls, file_name |-> fileName, is_stored |-> TRUE]

\* a row of StorageFiles; is_stored defaults to False
StorageFilesRow(cls, fileName) ==
    [sop_class_uid |-> cls, file_name |-> fileName, is_stored |-> FALSE]

\* the unique indexes of StorageFiles: sop_instance_uid and sop_class_uid
StorageFilesUnique(files, uid, cls) ==
    /\ uid \notin DOMAIN files
    /\ \A u \in DOMAIN files : files[u].sop_class_uid # cls

\* StorageBase.new_file
NewFile(st, uid, cls, fileName) ==
    IF StorageFilesUnique(st.files, uid, cls)
    THEN [raised |-> NoError,
          st |-> [st EXCEPT !.files = DictSet(@, uid, StorageFilesRow(cls, fileName))]]
    ELSE [raised |-> <<"IntegrityError">>, st |-> st]

\* StorageBase.file_stored
FileStored(st, uid) ==
    IF uid \in DOMAIN st.files
    THEN [raised |-> NoError, st |-> [st EXCEPT !.files[uid].is_stored = TRUE]]
    ELSE [raised |-> <<"DoesNotExist">>, st |-> st]

\* StorageBase.remove_file
RemoveFile(st, uid) ==
    IF uid \in DOMAIN st.files
    THEN [raised |-> NoError, file_name |-> <<st.files[uid].file_name>>,
          st |-> [st EXCEPT !.files = DictDel(@, uid)]]
    ELSE [raised |-> <<"DoesNotExist">>, file_name |-> NoneV, st |-> st]

\* faulty variant of FindFiles: the is_stored condition is left out
FindFilesAnyRecord(st, uids) ==
    {u \in uids \cap DOMAIN st.files : TRUE}

\* StorageBase.find_files: the rows named in uids that are stored
FindFiles(st, uids) ==
    {u \in uids \cap DOMAIN st.files : st.files[u].is_stored = TRUE}

\* faulty variant of Verify: an instance counts as stored when a stored row has
\* its SOP instance UID, whatever the SOP class of the row
VerifyByInstanceUid(st, instances) ==
    LET found == FindFiles(st, {i[2] : i \in instances})
    IN  [success |-> {i \in instances : i[2] \in found},
         failure |-> {i \in instances : i[2] \notin found}]

\* StorageBase.verify; instances is a set of <<sop_class_uid, sop_instance_uid>>
Verify(st, instances) ==
    LET stored_instances ==
            {<<st.files[u].sop_class_uid, u>> : u \in FindFiles(st, {i[2] : i \in instances})}
    IN  [success |-> instances \cap stored_instances,
         failure |-> instances \ stored_instances]

\* PACS.on_commitment: ON_STORE_VERIFY is broadcast to the storage backends
\* (one, the InMemoryStorage) and the success sets and the failure sets of
\* the results are chained into two lists
OnCommitment(st, uids) ==
    LET results == <<Verify(st, uids)>>
    IN  [success |-> UNION {results[k].success : k \in DOMAIN results},
         failure |-> UNION {results[k].failure : k \in DOMAIN results}]

\* InMemoryStorage.on_get_file for a command set with AffectedSOPInstanceUID
\* uid and AffectedSOPClassUID cls; the file name of the record is the uid
OnGetFile(st, uid, cls) ==
    LET created == NewFile(st, uid, cls, uid)
    IN  IF created.raised # NoError THEN created
        ELSE [raised |-> NoError,
              st |-> [created.st EXCEPT !.temp = DictSet(@, uid, <<>>)]]

\* InMemoryStorage.on_store_done
OnStoreDone(st, ds) ==
    IF ds.SOPInstanceUID = NoneV THEN [raised |-> <<"AttributeError">>, st |-> st]
    ELSE LET uid == ds.SOPInstanceUID[1]
             marked == FileStored(st, uid)
         IN  IF marked.raised # NoError THEN marked
             ELSE IF uid \notin DOMAIN marked.st.temp
                  THEN [raised |-> <<"KeyError">>, st |-> marked.st]
                  ELSE LET read == Dcmread(marked.st.temp[uid])
                       IN  IF read.raised # NoError
                           THEN [raised |-> read.raised, st |-> marked.st]
                           ELSE [raised |-> NoError,
                                 st |-> [marked.st EXCEPT
                                            !.stored = DictSet(@, uid, read.ds),
                                            !.temp = DictDel(@, uid)]]

\* InMemoryStorage.on_store_failure
OnStoreFailure(st, ds) ==
    IF ds.SOPInstanceUID = NoneV THEN [raised |-> <<"AttributeError">>, st |-> st]
    ELSE LET removed == RemoveFile(st, ds.SOPInstanceUID[1])
         IN  IF removed.raised # NoError
             THEN [raised |-> removed.raised, st |-> st]
             ELSE [raised |-> NoError,
                   st |-> [removed.st EXCEPT !.temp = DictDel(@, removed.file_name[1])]]

\* InMemoryStorage.on_store_get_files, consumed to its end: the triples
\* <<sop_class_uid, sop_instance_uid, dataset>> it yields
OnStoreGetFiles(st, uids) ==
    LET found == FindFiles(st, uids)
    IN  IF \E u \in found : u \notin DOMAIN st.stored
        THEN [raised |-> <<"KeyError">>, files |-> {}]
        ELSE [raised |-> NoError,
              files |-> {<<st.files[u].sop_class_uid, u, st.stored[u]>> : u \in found}]

\* the state of the backend as the storage operators take it
St == [files |-> storageFiles, temp |-> tempFiles, stored |-> storedFiles]

\* the backend takes the state st
SetSt(st) ==
    /\ storageFiles' = st.files
    /\ tempFiles' = st.temp
    /\ storedFiles' = st.stored

NewEvent(op) ==
    [op |-> op, uid |-> NoneV, uids |-> {}, raised |-> NoError,
     files |-> {}, instances |-> {}, success |-> {}, failure |-> {}]

NoEvent == NewEvent("none")

StorageInit ==
    /\ storageFiles = EmptyStorage.files
    /\ tempFiles = EmptyStorage.temp
    /\ storedFiles = EmptyStorage.stored
    /\ doneFired = {}
    /\ lastEvent = NoEvent

(***************************************************************************)
(* pacs/models.py and the C-STORE of the level APIs                        *)
(* An index idx is [patients, studies, series, instances]: the rows of the *)
(* Patient, Study, Series and Instance tables.  A row names its parent by  *)
(* the parent's unique identifier (the code holds the parent's row id).    *)
(***************************************************************************)
EmptyIndex == [patients |-> {}, studies |-> {}, series |-> {}, instances |-> {}]

\* SQL LIKE / ILIKE folds case; the names of the model hold no wildcard
Lower(name) == IF name = "DOE" THEN "doe" ELSE name

\* Patient.patient_name ** str(patient_name); a NULL column matches nothing
ILike(column, pattern) == column # NoneV /\ Lower(column[1]) = Lower(pattern)

\* the query PatientAPI.c_store builds: patient_id equal and, when the dataset
\* carries a name, patient_name like it (sex and birth date are not modelled)
PatientQuery(idx, ds) ==
    {p \in idx.patients :
        /\ ds.PatientID # NoneV
        /\ p.patient_id = ds.PatientID[1]
        /\ ds.PatientName # NoneV => ILike(p.patient_name, ds.PatientName[1])}

\* Patient.create: patient_id is NOT NULL and unique
PatientCreate(idx, ds) ==
    IF ds.PatientID = NoneV \/ \E p \in idx.patients : p.patient_id = ds.PatientID[1]
    THEN [raised |-> <<"IntegrityError">>, idx |-> idx, row |-> NoneV]
    ELSE [raised |-> NoError,
          idx |-> [idx EXCEPT !.patients = @ \cup
                      {[patient_id |-> ds.PatientID[1], patient_name |-> ds.PatientName]}],
          row |-> ds.PatientID]

\* PatientAPI.c_store: the row found, or a new one; row is <<patient_id>>
PatientCStore(idx, ds) ==
    LET query == PatientQuery(idx, ds)
    IN  IF query # {}
        THEN [raised |-> NoError, idx |-> idx,
              row |-> <<(CHOOSE p \in query : TRUE).patient_id>>]
        ELSE PatientCreate(idx, ds)

\* faulty variant of StudyCStore: an existing row is moved under the patient
\* handed in
StudyCStoreReparent(idx, patient, ds) ==
    IF ds.StudyInstanceUID = NoneV
    THEN [raised |-> <<"AttributeError">>, idx |-> idx, row |-> NoneV]
    ELSE [raised |-> NoError,
          idx |-> [idx EXCEPT !.studies =
                      {s \in @ : s.study_instance_uid # ds.StudyInstanceUID[1]} \cup
                      {[study_instance_uid |-> ds.StudyInstanceUID[1], patient |-> patient[1]]}],
          row |-> ds.StudyInstanceUID]

\* StudyAPI.c_store: the row with the dataset's StudyInstanceUID, or a new one
\* under the patient handed in
StudyCStore(idx, patient, ds) ==
    IF ds.StudyInstanceUID = NoneV
    THEN [raised |-> <<"AttributeError">>, idx |-> idx, row |-> NoneV]
    ELSE IF \E s \in idx.studies : s.study_instance_uid = ds.StudyInstanceUID[1]
    THEN [raised |-> NoError, idx |-> idx, row |-> ds.StudyInstanceUID]
    ELSE [raised |-> NoError,
          idx |-> [idx EXCEPT !.studies = @ \cup
                      {[study_instance_uid |-> ds.StudyInstanceUID[1], patient |-> patient[1]]}],
          row |-> ds.StudyInstanceUID]

\* SeriesAPI.c_store
SeriesCStore(idx, study, ds) ==
    IF ds.SeriesInstanceUID = NoneV
    THEN [raised |-> <<"AttributeError">>, idx |-> idx, row |-> NoneV]
    ELSE IF \E s \in idx.series : s.series_instance_uid = ds.SeriesInstanceUID[1]
    THEN [raised |-> NoError, idx |-> idx, row |-> ds.SeriesInstanceUID]
    ELSE [raised |-> NoError,
          idx |-> [idx EXCEPT !.series = @ \cup
                      {[series_instance_uid |-> ds.SeriesInstanceUID[1], study |-> study[1]]}],
          row |-> ds.SeriesInstanceUID]

\* Instance.create: sop_instance_uid is unique
InstanceCreate(idx, series, ds) ==
    IF \E i \in idx.instances : i.sop_instance_uid = ds.SOPInstanceUID[1]
    THEN [raised |-> <<"IntegrityError">>, idx |-> idx, row |-> NoneV]
    ELSE [raised |-> NoError,
          idx |-> [idx EXCEPT !.instances = @ \cup
                      {[sop_instance_uid |-> ds.SOPInstanceUID[1], series |-> series[1],
                        sop_class_uid |-> ds.SOPClassUID]}],
          row |-> ds.SOPInstanceUID]

\* faulty variant of InstanceCStore: a row is created without looking for an
\* existing one
InstanceCStoreNoLookup(idx, series, ds) ==
    IF ds.SOPInstanceUID = NoneV
    THEN [raised |-> <<"AttributeError">>, idx |-> idx, row |-> NoneV]
    ELSE InstanceCreate(idx, series, ds)

\* InstanceAPI.c_store
InstanceCStore(idx, series, ds) ==
    IF ds.SOPInstanceUID = NoneV
    THEN [raised |-> <<"AttributeError">>, idx |-> idx, row |-> NoneV]
    ELSE IF \E i \in idx.instances : i.sop_instance_uid = ds.SOPInstanceUID[1]
    THEN [raised |-> NoError, idx |-> idx, row |-> ds.SOPInstanceUID]
    ELSE InstanceCreate(idx, series, ds)

\* the body of PACS.c_store inside the transaction: the four level steps in
\* order, up to the first that raises; idx is the index as the transaction
\* sees it when it ends
CStoreSteps(idx, ds) ==
    LET p == PatientCStore(idx, ds)
    IN  IF p.raised # NoError THEN [raised |-> p.raised, level |-> "PATIENT", idx |-> p.idx]
        ELSE LET st == StudyCStore(p.idx, p.row, ds)
        IN  IF st.raised # NoError THEN [raised |-> st.raised, level |-> "STUDY", idx |-> st.idx]
        ELSE LET se == SeriesCStore(st.idx, st.row, ds)
        IN  IF se.raised # NoError THEN [raised |-> se.raised, level |-> "SERIES", idx |-> se.idx]
        ELSE LET i == InstanceCStore(se.idx, se.row, ds)
        IN  [raised |-> i.raised, level |-> "IMAGE", idx |-> i.idx]

\* faulty variant of CStore: what the steps wrote stays when a step raises
CStoreNoRollback(idx, ds) ==
    LET steps == CStoreSteps(idx, ds)
    IN  [raised |-> steps.raised, level |-> steps.level,
         written |-> steps.idx, idx |-> steps.idx]

\* PACS.c_store: the steps in `with self.atomic()`; an exception rolls the
\* transaction back and propagates.  written is what the steps had written.
CStore(idx, ds) ==
    LET steps == CStoreSteps(idx, ds)
    IN  [raised |-> steps.raised, level |-> steps.level, written |-> steps.idx,
         idx |-> IF steps.raised = NoError THEN steps.idx ELSE idx]

\* the index as the operators take it
Idx == [patients |-> patientRows, studies |-> studyRows,
        series |-> seriesRows, instances |-> instanceRows]

\* the tables take the index idx
SetIdx(idx) ==
    /\ patientRows' = idx.patients
    /\ studyRows' = idx.studies
    /\ seriesRows' = idx.series
    /\ instanceRows' = idx.instances

\* the record of one call of c_store: ds is the dataset of a call that
\* returned (the one a repeated call is made with), Garbage after a call
\* that raised; patient_id is the PatientID of the dataset of any call
NewStore(op, ds) ==
    [op |-> op, ds |-> ds, patient_id |-> ds.PatientID, raised |-> NoError,
     level |-> "", written |-> EmptyIndex]

NoStore == NewStore("none", Garbage)

IndexInit ==
    /\ patientRows = EmptyIndex.patients
    /\ studyRows = EmptyIndex.studies
    /\ seriesRows = EmptyIndex.series
    /\ instanceRows = EmptyIndex.instances
    /\ lastStore = NoStore

(***************************************************************************)
(* pacs/component.py: the STORE, FIND and MOVE handlers of the query engine *)
(***************************************************************************)
\* the text filter of a C-FIND key on a UI column: attr ** value; the UIDs of
\* the model hold no letter and no wildcard
TextFilter(column, value) == column = value

\* the join Instance -> Series -> Study the IMAGE-level queries select from
InstanceSeriesStudy(idx) ==
    {t \in idx.instances \X idx.series \X idx.studies :
        /\ t[1].series = t[2].series_instance_uid
        /\ t[2].study = t[3].study_instance_uid}

\* InstanceAPI.c_find for a request that carries the keys StudyInstanceUID,
\* SeriesInstanceUID and SOPInstanceUID, each with a value <<v>> or empty:
\* one response per instance that passes the filters of the valued keys
InstanceCFind(idx, rq) ==
    {[SOPInstanceUID |-> t[1].sop_instance_uid,
      SeriesInstanceUID |-> t[2].series_instance_uid,
      StudyInstanceUID |-> t[3].study_instance_uid] :
        t \in {j \in InstanceSeriesStudy(idx) :
                /\ rq.SOPInstanceUID # NoneV =>
                       TextFilter(j[1].sop_instance_uid, rq.SOPInstanceUID[1])
                /\ rq.SeriesInstanceUID # NoneV =>
                       TextFilter(j[2].series_instance_uid, rq.SeriesInstanceUID[1])
                /\ rq.StudyInstanceUID # NoneV =>
                       TextFilter(j[3].study_instance_uid, rq.StudyInstanceUID[1])}}

\* QR_LEVEL / QRLevelRank
QRLevelRank(level) ==
    CASE level = "PATIENT" -> 0
      [] level = "STUDY" -> 1
      [] level = "SERIES" -> 2
      [] level = "IMAGE" -> 3

\* the identifier filters c_move_get_instances applies at a level: a filter is
\* applied at its own level and, below it, when the request carries the key
MoveFilters(rq) ==
    LET rank == QRLevelRank(rq.QueryRetrieveLevel)
    IN  [patient |-> rank = 0 \/ (rank > 0 /\ rq.PatientID # NoneV),
         study |-> rank = 1 \/ (rank > 1 /\ rq.StudyInstanceUID # NoneV),
         series |-> rank = 2 \/ (rank > 2 /\ rq.SeriesInstanceUID # NoneV),
         image |-> rank = 3]

\* faulty variant of CMoveGetInstances: the StudyInstanceUID filter is
\* applied whenever the request carries the key, at PATIENT level too
CMoveGetInstancesStudyKeyAtAnyLevel(idx, rq) ==
    LET use == [MoveFilters(rq) EXCEPT !.study = @ \/ rq.StudyInstanceUID # NoneV]
    IN  IF \/ use.patient /\ rq.PatientID = NoneV
           \/ use.study /\ rq.StudyInstanceUID = NoneV
           \/ use.series /\ rq.SeriesInstanceUID = NoneV
           \/ use.image /\ rq.SOPInstanceUID = NoneV
        THEN [raised |-> <<"AttributeError">>, instances |-> {}]
        ELSE [raised |-> NoError,
              instances |->
                {<<t[3].study_instance_uid, t[2].series_instance_uid, t[1].sop_instance_uid>> :
                    t \in {j \in InstanceSeriesStudy(idx) :
                            /\ \E p \in idx.patients :
                                   /\ p.patient_id = j[3].patient
                                   /\ use.patient => p.patient_id = rq.PatientID[1]
                            /\ use.study => j[3].study_instance_uid \in rq.StudyInstanceUID[1]
                            /\ use.series => j[2].series_instance_uid \in rq.SeriesInstanceUID[1]
                            /\ use.image => j[1].sop_instance_uid \in rq.SOPInstanceUID[1]}}]

\* faulty variant of CMoveGetInstances: no SOPInstanceUID filter at IMAGE level
CMoveGetInstancesNoSopFilter(idx, rq) ==
    LET use == MoveFilters(rq)
    IN  [raised |-> NoError,
         instances |->
            {<<t[3].study_instance_uid, t[2].series_instance_uid, t[1].sop_instance_uid>> :
                t \in {j \in InstanceSeriesStudy(idx) :
                        /\ \E p \in idx.patients : p.patient_id = j[3].patient
                        /\ use.study => j[3].study_instance_uid \in rq.StudyInstanceUID[1]
                        /\ use.series => j[2].series_instance_uid \in rq.SeriesInstanceUID[1]}}]

\* PACS.c_move_get_instances; a UID key of the request is <<set of UIDs>> or
\* absent; a key the level requires and the request lacks raises
CMoveGetInstances(idx, rq) ==
    LET use == MoveFilters(rq)
    IN  IF \/ use.patient /\ rq.PatientID = NoneV
           \/ use.study /\ rq.StudyInstanceUID = NoneV
           \/ use.series /\ rq.SeriesInstanceUID = NoneV
           \/ use.image /\ rq.SOPInstanceUID = NoneV
        THEN [raised |-> <<"AttributeError">>, instances |-> {}]
        ELSE [raised |-> NoError,
              instances |->
                {<<t[3].study_instance_uid, t[2].series_instance_uid, t[1].sop_instance_uid>> :
                    t \in {j \in InstanceSeriesStudy(idx) :
                            /\ \E p \in idx.patients :
                                   /\ p.patient_id = j[3].patient
                                   /\ use.patient => p.patient_id = rq.PatientID[1]
                            /\ use.study => j[3].study_instance_uid \in rq.StudyInstanceUID[1]
                            /\ use.series => j[2].series_instance_uid \in rq.SeriesInstanceUID[1]
                            /\ use.image => j[1].sop_instance_uid \in rq.SOPInstanceUID[1]}}]

\* PACS.on_move: the instances resolved, then ON_GET_FILES for their UIDs
OnMove(st, idx, rq) ==
    LET found == CMoveGetInstances(idx, rq)
    IN  IF found.raised # NoError THEN [raised |-> found.raised, files |-> {}]
        ELSE OnStoreGetFiles(st, {t[3] : t \in found.instances})

\* PACS.on_store for the file fp the front-end received the dataset into.
\* trace is what the handler did, in order; returned is <<status>>, or <<>>
\* when the handler raised; a handler of the broadcast that raises ends
\* on_store with its exception (EventBus.broadcast)
OnStore(st, idx, fp) ==
    LET read == Dcmread(fp)
    IN  IF read.raised # NoError
        THEN LET f == OnStoreFailure(st, Garbage)
             IN  [trace |-> <<"parse error", "ON_STORE_FAILURE">>,
                  returned |-> IF f.raised = NoError
                               THEN <<"C_STORE_CANNON_UNDERSTAND">> ELSE NoneV,
                  raised |-> f.raised, st |-> f.st, idx |-> idx, ds |-> Garbage]
        ELSE LET c == CStore(idx, read.ds)
             IN  IF c.raised # NoError
                 THEN LET f == OnStoreFailure(st, read.ds)
                      IN  [trace |-> <<"parse", "begin", "rollback", "ON_STORE_FAILURE">>,
                           returned |-> IF f.raised = NoError
                                        THEN <<"C_STORE_CANNON_UNDERSTAND">> ELSE NoneV,
                           raised |-> f.raised, st |-> f.st, idx |-> c.idx, ds |-> read.ds]
                 ELSE LET d == OnStoreDone(st, read.ds)
                      IN  [trace |-> <<"parse", "begin", "commit", "ON_STORE_DONE">>,
                           returned |-> IF d.raised = NoError THEN <<"SUCCESS">> ELSE NoneV,
                           raised |-> d.raised, st |-> d.st, idx |-> c.idx, ds |-> read.ds]

NewRequest(op) ==
    [op |-> op, handle |-> NoneV, ds |-> Garbage, trace |-> <<>>, returned |-> NoneV,
     raised |-> NoError, rows |-> {}, files |-> {}]

NoRequest == NewRequest("none")

FlowInit ==
    /\ inProgress = {}
    /\ lastRequest = NoRequest

(***************************************************************************)
(* pacs/base_api.py: the filters of a C-FIND key                           *)
(* Text values and dates are sequences of characters.                      *)
(***************************************************************************)
\* the letters of the stored values, and what a pattern may hold besides
TextChars == {"a", "A", "b"}

PatternChars == TextChars \cup {"*", "?", "_", "%"}

\* the sequences over S of length at most n
SeqsUpTo(S, n) == UNION {[1..k -> S] : k \in 0..n}

\* str.replace(old, new) for single characters
Replace(value, old, new) ==
    [i \in DOMAIN value |-> IF value[i] = old THEN new ELSE value[i]]

\* the case folding of the LIKE the database applies for peewee's ** (ILIKE)
Fold(c) == IF c = "A" THEN "a" ELSE c

\* column ILIKE pattern: '%' matches any sequence of characters, '_' any one
\* character, any other character itself without regard to case
RECURSIVE SqlLike(_, _)
SqlLike(column, pattern) ==
    IF pattern = <<>> THEN column = <<>>
    ELSE IF Head(pattern) = "%"
         THEN \E k \in 0..Len(column) :
                  SqlLike(SubSeq(column, k + 1, Len(column)), Tail(pattern))
         ELSE /\ column # <<>>
              /\ Head(pattern) = "_" \/ Fold(Head(pattern)) = Fold(Head(column))
              /\ SqlLike(Tail(column), Tail(pattern))

\* BaseAPI._text_filter for a single value: query.where(attr ** value) after
\* '?' -> '_' and '*' -> '%'; column is <<text>>, or <<>> for NULL
TextFilterLike(column, value) ==
    /\ column # NoneV
    /\ SqlLike(column[1], Replace(Replace(value, "?", "_"), "*", "%"))

\* the key of a request as build_filters treats it for a text column: an
\* empty element adds no filter
BuildTextFilter(column, value) ==
    IF value = <<>> THEN TRUE ELSE TextFilterLike(column, value)

\* the digits of a date, and their order
Digits == {"0", "1", "2"}

Ord(c) == CASE c = "-" -> 0 [] c = "0" -> 1 [] c = "1" -> 2 [] c = "2" -> 3

\* a <= b for two strings, as the database compares text
RECURSIVE StrLe(_, _)
StrLe(a, b) ==
    IF a = <<>> THEN TRUE
    ELSE IF b = <<>> THEN FALSE
    ELSE IF Head(a) # Head(b) THEN Ord(Head(a)) < Ord(Head(b))
    ELSE StrLe(Tail(a), Tail(b))

\* str.split(sep)
RECURSIVE Split(_, _)
Split(value, sep) ==
    IF \A i \in DOMAIN value : value[i] # sep THEN <<value>>
    ELSE LET k == CHOOSE i \in DOMAIN value :
                      value[i] = sep /\ \A j \in 1..(i - 1) : value[j] # sep
         IN  <<SubSeq(value, 1, k - 1)>> \o Split(SubSeq(value, k + 1, Len(value)), sep)

\* faulty variant of DateFilter: the end of a range is excluded
DateFilterEndExcluded(column, value) ==
    IF \E i \in DOMAIN value : value[i] = "-"
    THEN LET parts == Split(value, "-")
         IN  IF Len(parts) # 2 THEN [raised |-> <<"ValueError">>, matched |-> FALSE]
             ELSE [raised |-> NoError,
                   matched |-> /\ column # NoneV
                               /\ StrLe(parts[1], column[1])
                               /\ StrLe(column[1], parts[2]) /\ column[1] # parts[2]]
    ELSE [raised |-> NoError, matched |-> column # NoneV /\ column[1] = value]

\* BaseAPI._date_filter: start, end = value.split('-') and
\* (attr >= start) & (attr <= end) when the value holds a hyphen, attr == value
\* otherwise; column is <<date>>, or <<>> for NULL, which no comparison matches
DateFilter(column, value) ==
    IF \E i \in DOMAIN value : value[i] = "-"
    THEN LET parts == Split(value, "-")
         IN  IF Len(parts) # 2 THEN [raised |-> <<"ValueError">>, matched |-> FALSE]
             ELSE [raised |-> NoError,
                   matched |-> /\ column # NoneV
                               /\ StrLe(parts[1], column[1])
                               /\ StrLe(column[1], parts[2])]
    ELSE [raised |-> NoError, matched |-> column # NoneV /\ column[1] = value]

(***************************************************************************)
(* pacs/base_api.py and the level APIs: C-FIND                             *)
(* A request rq is [QueryRetrieveLevel, elems]: elems maps the keywords of *)
(* the other elements of the dataset to <<value>>, or to <<>> for an       *)
(* element without value.  A response is a function keyword -> <<value>>   *)
(* or <<>>.                                                                *)
(***************************************************************************)
\* EXCLUDED_ATTRS
ExcludedAttrs ==
    {"QueryRetrieveLevel", "SpecificCharacterSet",
     "NumberOfPatientRelatedStudies", "NumberOfPatientRelatedSeries",
     "NumberOfPatientRelatedInstances", "ModalitiesInStudy", "SOPClassesInStudy",
     "OtherStudyNumbers", "NumberOfStudyRelatedSeries",
     "NumberOfStudyRelatedInstances", "NumberOfSeriesRelatedInstances"}

\* TEXT_VR
TextVR == {"AE", "CS", "LO", "LT", "PN", "SH", "ST", "UC", "UR", "UT", "UI"}

\* the VRs build_filter has a filter for
FilterVR == TextVR \cup {"DA", "TM", "DT"}

\* Patient.mapping, Study.mapping and Series.mapping, for the keys of the model
ModelMapping(model) ==
    CASE model = "Patient" ->
            ("PatientID" :> [attr |-> "patient_id", vr |-> "LO"])
      [] model = "Study" ->
            ("StudyInstanceUID" :> [attr |-> "study_instance_uid", vr |-> "UI"] @@
             "PatientSize" :> [attr |-> "patient_size", vr |-> "DS"])
      [] model = "Series" ->
            ("SeriesInstanceUID" :> [attr |-> "series_instance_uid", vr |-> "UI"] @@
             "SeriesNumber" :> [attr |-> "series_number", vr |-> "IS"])

\* the model PACS.c_find selects from at a level
LevelModel(level) ==
    CASE level = "PATIENT" -> "Patient"
      [] level = "STUDY" -> "Study"
      [] level = "SERIES" -> "Series"

\* the upper-level models whose attributes a level's c_find looks for, each
\* with the tables its joins add
UpperJoins(level) ==
    CASE level = "PATIENT" -> <<>>
      [] level = "STUDY" -> ("Patient" :> {"Patient"})
      [] level = "SERIES" -> ("Patient" :> {"Study", "Patient"} @@ "Study" :> {"Study"})

\* the count attributes a level's c_find selects: the alias of the COUNT, the
\* attribute the response is encoded from, and the tables the joins add
Aggregates(level) ==
    CASE level = "PATIENT" ->
            ("NumberOfPatientRelatedStudies" :>
                 [alias |-> "number_of_patient_related_studies",
                  attr |-> "number_of_patient_related_studies",
                  tables |-> {"Study"}] @@
             "NumberOfPatientRelatedSeries" :>
                 [alias |-> "number_of_patient_related_series",
                  attr |-> "number_of_patient_related_series",
                  tables |-> {"Study", "Series"}] @@
             "NumberOfPatientRelatedInstances" :>
                 [alias |-> "number_of_patient_related_instances",
                  attr |-> "number_of_patient_related_instances",
                  tables |-> {"Study", "Series", "Instance"}])
      [] level = "STUDY" ->
            ("NumberOfStudyRelatedSeries" :>
                 [alias |-> "number_of_study_related_series",
                  attr |-> "number_of_study_related_series",
                  tables |-> {"Series"}] @@
             "NumberOfStudyRelatedInstances" :>
                 [alias |-> "number_of_study_related_instances",
                  attr |-> "number_of_study_related_instances",
                  tables |-> {"Series", "Instance"}])
      [] level = "SERIES" ->
            ("NumberOfSeriesRelatedInstances" :>
                 [alias |-> "number_of_study_related_series",
                  attr |-> "number_of_series_related_instances",
                  tables |-> {"Instance"}])

\* elem.is_empty
IsEmpty(value) == value = <<>>

\* the truth value of elem.value: None, an empty string and the number 0 are false
Truthy(value) == value # <<>> /\ value[1] # 0

\* the row a query yields when no row is selected from
NullRow == [patient |-> NoneV, study |-> NoneV, series |-> NoneV, instance |-> NoneV]

\* the rows of the inner joins of the tables named: each part is <<row>>, or
\* <<>> for a table that is not joined
JoinRows(idx, tables) ==
    {j \in [patient : Optional(idx.patients), study : Optional(idx.studies),
            series : Optional(idx.series), instance : Optional(idx.instances)] :
        /\ j.patient # NoneV <=> "Patient" \in tables
        /\ j.study # NoneV <=> "Study" \in tables
        /\ j.series # NoneV <=> "Series" \in tables
        /\ j.instance # NoneV <=> "Instance" \in tables
        /\ (j.patient # NoneV /\ j.study # NoneV) =>
               j.study[1].patient = j.patient[1].patient_id
        /\ (j.study # NoneV /\ j.series # NoneV) =>
               j.series[1].study = j.study[1].study_instance_uid
        /\ (j.series # NoneV /\ j.instance # NoneV) =>
               j.instance[1].series = j.series[1].series_instance_uid}

\* the value of a column in a joined row: <<value>>, or <<>> for NULL; the
\* datasets stored carry no PatientSize and no SeriesNumber
Column(j, attr) ==
    CASE attr = "patient_id" /\ j.patient # NoneV -> <<j.patient[1].patient_id>>
      [] attr = "study_instance_uid" /\ j.study # NoneV -> <<j.study[1].study_instance_uid>>
      [] attr = "series_instance_uid" /\ j.series # NoneV -> <<j.series[1].series_instance_uid>>
      [] OTHER -> NoneV

\* the identifier of the row of the level's own table
Entity(j, level) ==
    CASE level = "PATIENT" -> Column(j, "patient_id")
      [] level = "STUDY" -> Column(j, "study_instance_uid")
      [] level = "SERIES" -> Column(j, "series_instance_uid")

\* PatientAPI.c_find, StudyAPI.c_find and SeriesAPI.c_find, consumed to the
\* end: the outcomes the call can have.  With a count selected the query is
\* an aggregate without GROUP BY: it yields one row, whose plain columns are
\* those of any one of the rows counted.
CFindOutcomes(idx, rq) ==
    LET level == rq.QueryRetrieveLevel
        own == LevelModel(level)
        tags == DOMAIN rq.elems
        upperOf == UpperJoins(level)
        upper == {t \in tags : \E um \in DOMAIN upperOf : t \in DOMAIN ModelMapping(um)}
        upperModel(t) == CHOOSE um \in DOMAIN upperOf : t \in DOMAIN ModelMapping(um)
        aggs == tags \cap DOMAIN Aggregates(level)
        skipped == upper \cup aggs
        ownTags == tags \ (ExcludedAttrs \cup skipped)
        mapped == ownTags \cap DOMAIN ModelMapping(own)
        unmapped == ownTags \ mapped
        tables == {own} \cup UNION {upperOf[upperModel(t)] : t \in upper}
                        \cup UNION {Aggregates(level)[t].tables : t \in aggs}
        entry(t) == IF t \in mapped THEN ModelMapping(own)[t]
                    ELSE ModelMapping(upperModel(t))[t]
        filtered == {t \in mapped : ~IsEmpty(rq.elems[t])} \cup
                    {t \in upper : Truthy(rq.elems[t])}
        selected == {j \in JoinRows(idx, tables) :
                        \A t \in filtered :
                            /\ Column(j, entry(t).attr) # NoneV
                            /\ TextFilter(Column(j, entry(t).attr)[1], rq.elems[t][1])}
        Response(j) ==
            [t \in mapped \cup unmapped \cup upper \cup aggs \cup {"SpecificCharacterSet"} |->
                IF t = "SpecificCharacterSet" THEN <<"ISO-IR 6">>
                ELSE IF t \in aggs THEN <<Cardinality(selected)>>
                ELSE IF t \in unmapped THEN NoneV
                ELSE Column(j, entry(t).attr)]
        Row(j) == [entity |-> Entity(j, level), rsp |-> Response(j)]
    IN  IF \E t \in filtered : entry(t).vr \notin FilterVR
        THEN {[raised |-> <<"ValueError">>, rows |-> {}]}
        ELSE IF aggs = {}
        THEN {[raised |-> NoError, rows |-> {Row(j) : j \in selected}]}
        ELSE IF \E t \in aggs : Aggregates(level)[t].alias # Aggregates(level)[t].attr
        THEN {[raised |-> <<"AttributeError">>, rows |-> {}]}
        ELSE {[raised |-> NoError, rows |-> {Row(j)}] :
                 j \in IF selected = {} THEN {NullRow} ELSE selected}

\* the record of one query
NewQuery(op) ==
    [op |-> op, column |-> NoneV, value |-> <<>>, matched |-> FALSE,
     raised |-> NoError, request |-> NoneV, rows |-> {}]

NoQuery == NewQuery("none")

QueryInit == lastQuery = NoQuery

(***************************************************************************)
(* services.py: qr_move_scp                                                *)
(***************************************************************************)
\* the instances a C-MOVE selects
MoveInstances == 1..MaxMoveInstances

\* what AE.on_receive_move hands to the service: a list of distinct instances
MoveLists ==
    UNION {{g \in [1..n -> MoveInstances] : \A i, j \in 1..n : g[i] = g[j] => i = j} :
              n \in 0..MaxMoveInstances}

\* how a C-STORE sub-operation ends: the status the destination answers with,
\* or the outbound association is dropped and service(...) raises
SubOpOutcomes == {"success", "warning", "failure", "dropped"}

\* status.is_failure
IsFailure(status) == status = "failure"

\* status.is_warning
IsWarning(status) == status = "warning"

\* dimsemessages.CMoveRSPMessage()
NewRsp == [status |-> "", remaining |-> 0, completed |-> 0, failed |-> 0, warning |-> 0]

\* _set_ops(msg, nop, failed, warning, completed)
SetOps(msg, nop, failed, warning, completed) ==
    [msg EXCEPT !.remaining = nop - completed, !.completed = completed,
                !.failed = failed, !.warning = warning]

\* qr_move_scp before it has received a request
NoMove ==
    [pc |-> "idle", known |-> FALSE, gen |-> <<>>, nop |-> 0,
     failed |-> 0, warning |-> 0, completed |-> 0, success |-> 0,
     rsp |-> NewRsp, sent |-> <<>>, subops |-> <<>>, outcomes |-> <<>>,
     associations |-> 0, raised |-> NoError]

MoveInit == move = NoMove

\* asce.send(rsp, ctx.id): the response is encoded and handed to the
\* association; ok is FALSE when the requester's association is gone and the
\* call raises
Send(m, ok) ==
    [m EXCEPT !.sent = Append(@, m.rsp),
              !.pc = IF ok THEN @ ELSE "raised",
              !.raised = IF ok THEN @ ELSE <<"send failed">>]

\* faulty variant of MoveBegin: an empty list is not told apart, the
\* association is requested whatever the list
MoveBeginNoEmptyCase(gen, known, accepted, ok) ==
    LET m0 == [NoMove EXCEPT !.known = known]
    IN  IF ~known
        THEN [m0 EXCEPT !.pc = "raised", !.raised = <<"EventHandlingError">>]
        ELSE LET m1 == [m0 EXCEPT !.gen = gen, !.nop = Len(gen)]
             IN  IF ~accepted
                 THEN [m1 EXCEPT !.pc = "raised", !.raised = <<"association refused">>]
                 ELSE [m1 EXCEPT !.associations = @ + 1,
                                 !.rsp.status = "PENDING", !.pc = "loop"]

\* qr_move_scp up to the sub-operation loop (services.py:27-64): known is
\* whether AE.on_receive_move finds the destination, accepted whether the
\* destination accepts the association
MoveBegin(gen, known, accepted, ok) ==
    LET m0 == [NoMove EXCEPT !.known = known]
    IN  IF ~known
        THEN [m0 EXCEPT !.pc = "raised", !.raised = <<"EventHandlingError">>]
        ELSE LET m1 == [m0 EXCEPT !.gen = gen, !.nop = Len(gen)]
             IN  IF m1.nop = 0
                 THEN Send([m1 EXCEPT !.rsp = [SetOps(m1.rsp, 0, 0, 0, 0) EXCEPT
                                                  !.status = "SUCCESS"],
                                      !.pc = "done"], ok)
                 ELSE IF ~accepted
                      THEN [m1 EXCEPT !.pc = "raised", !.raised = <<"association refused">>]
                      ELSE [m1 EXCEPT !.associations = @ + 1,
                                      !.rsp.status = "PENDING", !.pc = "loop"]

\* one iteration of the loop (services.py:65-82)
MoveSubOp(m, outcome, ok) ==
    LET called == [m EXCEPT !.subops = Append(@, <<m.gen[m.completed + 1], m.completed>>),
                            !.outcomes = Append(@, outcome)]
    IN  IF outcome = "dropped"
        THEN [called EXCEPT !.pc = "raised", !.raised = <<"sub-operation failed">>]
        ELSE LET failed == IF IsFailure(outcome) THEN m.failed + 1 ELSE m.failed
                 warning == IF ~IsFailure(outcome) /\ IsWarning(outcome)
                            THEN m.warning + 1 ELSE m.warning
                 success == IF ~IsFailure(outcome) /\ ~IsWarning(outcome)
                            THEN m.success + 1 ELSE m.success
             IN  Send([called EXCEPT
                          !.failed = failed, !.warning = warning, !.success = success,
                          !.rsp = [@ EXCEPT !.remaining = m.nop - m.completed,
                                            !.completed = success,
                                            !.failed = failed,
                                            !.warning = warning],
                          !.completed = @ + 1], ok)

\* after the loop (services.py:83-85)
MoveEnd(m, ok) ==
    Send([m EXCEPT !.rsp = [SetOps(m.rsp, m.completed, m.failed, m.warning, m.success)
                               EXCEPT !.status = "SUCCESS"],
                   !.pc = "done"], ok)

(***************************************************************************)
(* ae.py: the callbacks the transport makes on the AE                      *)
(***************************************************************************)
\* AE titles are strings, kept as sequences of characters
TinyPacs == <<"T", "P">>

AltTitle == <<"A">>

\* the called AE titles of the association requests: the configured titles,
\* bare and padded with blanks, a title that is not configured, a blank one
CalledTitles ==
    {TinyPacs, TinyPacs \o <<" ">>, <<" ">> \o TinyPacs \o <<" ", " ">>,
     AltTitle, AltTitle \o <<" ">>, <<"X">>, <<"T">>, <<" ">>}

\* str.lstrip()
RECURSIVE LStrip(_)
LStrip(t) == IF t # <<>> /\ Head(t) = " " THEN LStrip(Tail(t)) ELSE t

\* str.rstrip()
RECURSIVE RStrip(_)
RStrip(t) ==
    IF t # <<>> /\ t[Len(t)] = " " THEN RStrip(SubSeq(t, 1, Len(t) - 1)) ELSE t

\* str.strip()
Strip(t) == RStrip(LStrip(t))

\* AE.__init__: valid_aet from config ae_title, a list of titles or one title
ValidAet(ae_title) == IF ae_title.is_list THEN ae_title.value ELSE <<ae_title.value[1]>>

\* config.get('ae_title', ['TINY_PACS']) and config.get('dump_ds', False)
AEConfigs ==
    [ae_title : {[is_list |-> TRUE, value |-> <<TinyPacs>>],
                 [is_list |-> TRUE, value |-> <<TinyPacs, AltTitle>>],
                 [is_list |-> FALSE, value |-> <<AltTitle>>]},
     dump_ds : BOOLEAN]

\* the configuration {} of the tests
DefaultConfig == [ae_title |-> [is_list |-> TRUE, value |-> <<TinyPacs>>], dump_ds |-> FALSE]

\* AE.__init__(bus, config)
NewAE(config) == [valid_aet |-> ValidAet(config.ae_title), dump_ds |-> config.dump_ds]

\* the bus channels of AEChannels the model dispatches on
AssocChannel == "on-assoc-request"

StoreChannel == "on-receive-store"

\* a callback of the AE and its outcome
NewCall(op) ==
    [op |-> op, called |-> <<>>, rejection |-> <<>>, broadcasts |-> <<>>,
     is_success |-> [h \in Handlers |-> TRUE], returned |-> NoneV, raised |-> NoError,
     lazy |-> [h \in Handlers |-> FALSE], destination |-> <<>>, remote_ae |-> NoneV,
     datasets |-> <<>>]

NoCall == NewCall("none")

AEInit ==
    /\ ae = NewAE(DefaultConfig)
    /\ lastCall = NoCall

\* faulty variant of OnAssociationRequest: ASSOC is broadcast before the called
\* AE title is looked at
OnAssociationRequestBroadcastFirst(a, called_ae_title, beh) ==
    LET called == Strip(called_ae_title)
        d == BroadcastResult(AssocChannel, beh)
        c == [NewCall("assoc") EXCEPT !.called = called_ae_title,
                                      !.broadcasts = <<AssocChannel>>]
    IN  IF called \notin Range(a.valid_aet)
        THEN [dispatch |-> d,
              call |-> [c EXCEPT !.rejection = <<1, 1, 7>>,
                                 !.raised = <<"AssociationRejectedError">>]]
        ELSE [dispatch |-> d, call |-> [c EXCEPT !.raised = d.raised]]

\* AE.on_association_request
OnAssociationRequest(a, called_ae_title, beh) ==
    LET called == Strip(called_ae_title)
        c == [NewCall("assoc") EXCEPT !.called = called_ae_title]
    IN  IF called \notin Range(a.valid_aet)
        THEN [dispatch |-> NoDispatch,
              call |-> [c EXCEPT !.rejection = <<1, 1, 7>>,
                                 !.raised = <<"AssociationRejectedError">>]]
        ELSE LET d == BroadcastResult(AssocChannel, beh)
             IN  [dispatch |-> d,
                  call |-> [c EXCEPT !.broadcasts = <<AssocChannel>>,
                                     !.raised = d.raised]]

\* statuses.SUCCESS
StatusSuccess == <<"SUCCESS">>

\* faulty variant of FirstNonSuccess: the last status that is no success is
\* returned
RECURSIVE FirstNonSuccessLast(_, _, _)
FirstNonSuccessLast(results, calls, is_success) ==
    IF results = <<>> THEN [returned |-> StatusSuccess, raised |-> NoError]
    ELSE LET rest == FirstNonSuccessLast(Tail(results), Tail(calls), is_success)
         IN  IF Head(results) = NoneV
             THEN [returned |-> NoneV, raised |-> <<"AttributeError">>]
             ELSE IF rest.returned # StatusSuccess \/ is_success[Head(calls)]
                  THEN rest
                  ELSE [returned |-> Head(results), raised |-> NoError]

\* AE.on_receive_store, the loop over the results (ae.py:99-102): calls[i] is
\* the handler that returned results[i]
RECURSIVE FirstNonSuccess(_, _, _)
FirstNonSuccess(results, calls, is_success) ==
    IF results = <<>> THEN [returned |-> StatusSuccess, raised |-> NoError]
    ELSE IF Head(results) = NoneV
         THEN [returned |-> NoneV, raised |-> <<"AttributeError">>]
         ELSE IF ~is_success[Head(calls)]
              THEN [returned |-> Head(results), raised |-> NoError]
              ELSE FirstNonSuccess(Tail(results), Tail(calls), is_success)

\* AE.on_receive_store: readable is whether pydicom.dcmread can read ds,
\* is_success[h] is the is_success attribute of the status handler h returns
OnReceiveStore(a, readable, beh, is_success) ==
    LET c == [NewCall("store") EXCEPT !.is_success = is_success]
    IN  IF a.dump_ds /\ ~readable
        THEN [dispatch |-> NoDispatch, call |-> [c EXCEPT !.raised = <<"InvalidDicomError">>]]
        ELSE LET d == BroadcastResult(StoreChannel, beh)
                 b == [c EXCEPT !.broadcasts = <<StoreChannel>>]
             IN  IF d.raised # NoError
                 THEN [dispatch |-> d, call |-> [b EXCEPT !.raised = <<"EventHandlingError">>]]
                 ELSE LET r == FirstNonSuccess(d.returned, d.calls, is_success)
                      IN  [dispatch |-> d,
                           call |-> [b EXCEPT !.returned = r.returned,
                                              !.raised = r.raised]]

(***************************************************************************)
(* devices.py: the device registry                                         *)
(***************************************************************************)
\* devices.py:22, the port of a device learned from an association when the
\* configuration names no default_port
DefaultPort == 11112

\* 'REMOTE_PACS', the device the tests configure
RemotePacs == <<"R">>

\* a device no configuration names
Modality == <<"M">>

\* the calling AE titles of the association requests, bare and padded
CallingTitles == {RemotePacs, RemotePacs \o <<" ">>, Modality, <<" ">> \o Modality}

\* asce.client_address[0] of the association requests
ClientAddresses == {"10.0.0.1", "10.0.0.2"}

\* the AE titles DEVICE_BY_AE is asked for: C-MOVE destinations and the
\* remote AE of Storage Commitment requests
LookupTitles == {RemotePacs, Modality, <<"X">>}

\* an entry of Devices.devices
DeviceEntry(aet, address, port) == [aet |-> aet, address |-> address, port |-> port]

\* config['devices'] as the tests give it
ConfiguredDevices ==
    [t \in {RemotePacs} |-> DeviceEntry(RemotePacs, "127.0.0.1", 11112)]

\* the configurations of Devices: 'devices' given or not, auto_add, default_port
DevicesConfigs == [configured : BOOLEAN, auto_add : BOOLEAN, default_port : {DefaultPort, 104}]

\* Devices.__init__: self.devices = config.get('devices', {})
NewDevices(config) == IF config.configured THEN ConfiguredDevices ELSE <<>>

\* Devices.device_by_ae: self.devices.get(ae)
DeviceByAe(devs, title) == IF title \in DOMAIN devs THEN <<devs[title]>> ELSE NoneV

\* the entry add_device_from_asce stores
LearnedEntry(cfg, remote_addr, calling_ae_title) ==
    DeviceEntry(calling_ae_title, remote_addr, cfg.default_port)

\* faulty variant of AddDeviceFromAsce: the entry is stored whether the title
\* is known or not
AddDeviceFromAsceOverwrite(devs, cfg, remote_addr, calling) ==
    DictSet(devs, Strip(calling), LearnedEntry(cfg, remote_addr, Strip(calling)))

\* Devices.add_device_from_asce
AddDeviceFromAsce(devs, cfg, remote_addr, calling) ==
    LET calling_ae_title == Strip(calling)
    IN  IF calling_ae_title \in DOMAIN devs THEN devs
        ELSE DictSet(devs, calling_ae_title,
                     LearnedEntry(cfg, remote_addr, calling_ae_title))

\* an event delivered to Devices and its outcome
NewDev(op) == [op |-> op, title |-> <<>>, address |-> "", returned |-> NoneV]

NoDev == NewDev("none")

\* number of threads that serve associations at the same time
NumThreads == 2

Threads == 1..NumThreads

\* a thread that is not in add_device_from_asce
IdleThread == [pc |-> "idle", title |-> <<>>, address |-> ""]

DevInit ==
    /\ devices = <<>>
    /\ devicesCfg = [auto_add |-> TRUE, default_port |-> DefaultPort]
    /\ lastDev = NoDev
    /\ regThreads = [t \in Threads |-> IdleThread]
    /\ lookups = <<>>

(***************************************************************************)
(* storage.py: FileStorage.on_get_file                                     *)
(* A path of the dated folder is <<uid, i>>: '<uid>.dcm' for i = 0 and     *)
(* '<uid>_<i>.dcm' otherwise.                                              *)
(***************************************************************************)
\* number of files the folder is driven to hold
MaxFiles == 3

\* FileStorage.get_file_name: the loop `while os.path.exists(full_name)`
RECURSIVE GetFileNameFrom(_, _, _)
GetFileNameFrom(files, uid, i) ==
    IF <<uid, i>> \in DOMAIN files THEN GetFileNameFrom(files, uid, i + 1) ELSE <<uid, i>>

\* FileStorage.get_file_name
GetFileName(files, uid) == GetFileNameFrom(files, uid, 0)

\* open(full_name, 'wb') by the call of thread t: the file is created, or
\* truncated when it exists
OpenForWriting(files, full_name, t) ==
    DictSet(files, full_name,
            Append(IF full_name \in DOMAIN files THEN files[full_name] ELSE <<>>, t))

\* a thread that is not in on_get_file
IdleCall == [pc |-> "idle", uid |-> 0, cls |-> 0, full_name |-> <<>>, raised |-> NoError]

FsInit ==
    /\ fsFolder = TRUE
    /\ fsFiles = <<>>
    /\ fsThreads = [t \in Threads |-> IdleCall]

(***************************************************************************)
(* ae.py: the callbacks for C-FIND, C-MOVE, C-GET and Storage Commitment   *)
(***************************************************************************)
FindChannel == "on-receive-find"

MoveChannel == "on-receive-move"

GetChannel == "on-receive-get"

CommitmentChannel == "on-receive-commitment"

\* the destinations of C-MOVE requests and the remote AEs of Storage
\* Commitment requests
Destinations == LookupTitles \cup {RemotePacs \o <<" ">>}

\* chain.from_iterable(results) consumed to its end.  calls[i] is the handler
\* that returned results[i]; lazy[h] says that handler h is a generator
\* function whose body raises: the call returns a generator and the exception
\* comes when the generator is first advanced.  None is not iterable.
RECURSIVE ChainFromIterable(_, _, _, _)
ChainFromIterable(results, calls, lazy, acc) ==
    IF results = <<>> THEN [yielded |-> acc, raised |-> NoError]
    ELSE IF Head(results) = NoneV THEN [yielded |-> acc, raised |-> <<"TypeError">>]
    ELSE IF lazy[Head(calls)] THEN [yielded |-> acc, raised |-> ErrorOf(Head(calls))]
    ELSE ChainFromIterable(Tail(results), Tail(calls), lazy, Append(acc, Head(results)))

\* AE.on_receive_find, a generator, advanced by the transport to its end
OnReceiveFind(beh, lazy) ==
    LET c == [NewCall("find") EXCEPT !.lazy = lazy, !.broadcasts = <<FindChannel>>]
        d == BroadcastResult(FindChannel, beh)
    IN  IF d.raised # NoError
        THEN [dispatch |-> d, call |-> [c EXCEPT !.raised = <<"EventHandlingError">>]]
        ELSE LET r == ChainFromIterable(d.returned, d.calls, lazy, <<>>)
             IN  [dispatch |-> d,
                  call |-> [c EXCEPT !.datasets = r.yielded, !.raised = r.raised]]

\* faulty variant of OnReceiveMove: MOVE is broadcast before the destination
\* is looked up
OnReceiveMoveBroadcastFirst(devs, destination, beh) ==
    LET c == [NewCall("move") EXCEPT !.destination = destination,
                                     !.broadcasts = <<MoveChannel>>]
        d == BroadcastResult(MoveChannel, beh)
        remote_ae == DeviceByAe(devs, destination)
    IN  IF d.raised # NoError \/ remote_ae = NoneV
        THEN [dispatch |-> d, call |-> [c EXCEPT !.raised = <<"EventHandlingError">>]]
        ELSE [dispatch |-> d,
              call |-> [c EXCEPT !.remote_ae = remote_ae, !.datasets = d.returned]]

\* AE.on_receive_move.  send_any(DEVICE_BY_AE, destination) reaches the one
\* listener of that channel, Devices.device_by_ae (devices.py:25); the chain
\* of the results is returned as it is, not consumed
OnReceiveMove(devs, destination, beh) ==
    LET c == [NewCall("move") EXCEPT !.destination = destination]
        remote_ae == DeviceByAe(devs, destination)
    IN  IF remote_ae = NoneV
        THEN [dispatch |-> NoDispatch,
              call |-> [c EXCEPT !.raised = <<"EventHandlingError">>]]
        ELSE LET d == BroadcastResult(MoveChannel, beh)
                 b == [c EXCEPT !.broadcasts = <<MoveChannel>>]
             IN  IF d.raised # NoError
                 THEN [dispatch |-> d,
                       call |-> [b EXCEPT !.raised = <<"EventHandlingError">>]]
                 ELSE [dispatch |-> d,
                       call |-> [b EXCEPT !.remote_ae = remote_ae,
                                          !.datasets = d.returned]]

\* AE.on_receive_get
OnReceiveGet(beh) ==
    LET c == [NewCall("get") EXCEPT !.broadcasts = <<GetChannel>>]
        d == BroadcastResult(GetChannel, beh)
    IN  IF d.raised # NoError
        THEN [dispatch |-> d, call |-> [c EXCEPT !.raised = <<"EventHandlingError">>]]
        ELSE [dispatch |-> d, call |-> [c EXCEPT !.datasets = d.returned]]

\* AE.on_commitment_request; `for s, _ in results` cannot unpack None
OnCommitmentRequest(devs, remote_ae_title, beh) ==
    LET c == [NewCall("commitment") EXCEPT !.destination = remote_ae_title]
        remote_ae == DeviceByAe(devs, remote_ae_title)
    IN  IF remote_ae = NoneV
        THEN [dispatch |-> NoDispatch,
              call |-> [c EXCEPT !.raised = <<"EventHandlingError">>]]
        ELSE LET d == BroadcastResult(CommitmentChannel, beh)
                 b == [c EXCEPT !.broadcasts = <<CommitmentChannel>>]
             IN  IF d.raised # NoError
                 THEN [dispatch |-> d,
                       call |-> [b EXCEPT !.raised = <<"EventHandlingError">>]]
                 ELSE IF \E i \in 1..Len(d.returned) : d.returned[i] = NoneV
                      THEN [dispatch |-> d, call |-> [b EXCEPT !.raised = <<"TypeError">>]]
                      ELSE [dispatch |-> d,
                            call |-> [b EXCEPT !.remote_ae = remote_ae,
                                               !.datasets = d.returned]]

\* DefaultChannels.ON_EXIT
OnExitChannel == "on-exit"

\* faulty variant of ServerExitResult: ON_EXIT is delivered with broadcast
ServerExitResultThrowing(beh) ==
    [BroadcastResult(OnExitChannel, beh) EXCEPT !.mode = "exit"]

\* Server.exit up to the call of ae.quit: broadcast_nothrow(ON_EXIT), whose
\* result is dropped
ServerExitResult(beh) ==
    [BroadcastNothrowResult(OnExitChannel, beh) EXCEPT !.mode = "exit"]

(***************************************************************************)
(* SpecBus                                                                 *)
(***************************************************************************)
\* The calls made on the bus, one at a time: the next call is made when the
\* last dispatch has returned to its caller (BusReturn).
\* The callback's own attribute is an input only when it is read.
BusSubscribe ==
    /\ UNCHANGED notBusVars
    /\ dispatch = NoDispatch
    /\ \E ch \in BusChannels, cb \in Handlers, priority \in PriorityArgs :
        \E attr \in IF priority = NoneV THEN PriorityArgs ELSE {NoneV} :
            /\ \/ <<ch, cb>> \in DOMAIN priorities
               \/ Cardinality(DOMAIN priorities) < MaxSubscriptions
            /\ Subscribe(ch, cb, priority, attr)

BusUnsubscribe ==
    /\ UNCHANGED notBusVars
    /\ dispatch = NoDispatch
    /\ \E ch \in BusChannels, cb \in Handlers : Unsubscribe(ch, cb)

BusBroadcast ==
    /\ UNCHANGED notBusVars
    /\ dispatch = NoDispatch
    /\ \E ch \in BusChannels : \E beh \in BehavioursOn(ch) : Broadcast(ch, beh)

BusBroadcastNothrow ==
    /\ UNCHANGED notBusVars
    /\ dispatch = NoDispatch
    /\ \E ch \in BusChannels : \E beh \in BehavioursOn(ch) : BroadcastNothrow(ch, beh)

BusSendOne ==
    /\ UNCHANGED notBusVars
    /\ dispatch = NoDispatch
    /\ \E ch \in BusChannels : \E beh \in BehavioursOn(ch) : SendOne(ch, beh)

BusSendAny ==
    /\ UNCHANGED notBusVars
    /\ dispatch = NoDispatch
    /\ \E ch \in BusChannels : \E beh \in BehavioursOn(ch) : SendAny(ch, beh)

\* Server.exit: the components' on_exit handlers are the listeners of ON_EXIT
BusExit ==
    /\ UNCHANGED notBusVars
    /\ dispatch = NoDispatch
    /\ \E beh \in BehavioursOn(OnExitChannel) : dispatch' = ServerExitResult(beh)
    /\ UNCHANGED <<listeners, priorities>>

BusReturn ==
    /\ UNCHANGED notBusVars
    /\ dispatch # NoDispatch
    /\ dispatch' = NoDispatch
    /\ UNCHANGED <<listeners, priorities>>

InitBus == BusInit /\ StorageInit /\ IndexInit /\ FlowInit /\ MoveInit /\ AEInit /\ DevInit /\ FsInit /\ QueryInit

NextBus ==
    \/ BusSubscribe
    \/ BusUnsubscribe
    \/ BusBroadcast
    \/ BusBroadcastNothrow
    \/ BusSendOne
    \/ BusSendAny
    \/ BusExit
    \/ BusReturn

SpecBus == InitBus /\ [][NextBus]_vars

(***************************************************************************)
(* Claims about the event bus, under SpecBus                               *)
(***************************************************************************)
\* the priority a callback is registered with on the channel of the last dispatch
PriorityOf(l) == priorities[<<dispatch.channel, l>>]

\* the callbacks of the last dispatch's channel in dispatch order
DispatchOrder == [i \in 1..Len(dispatch.sorted) |-> dispatch.sorted[i][2]]

\* calls names every listener of the channel once, lower priority numbers first
CallsAllInPriorityOrder(calls, ch) ==
    /\ Range(calls) = ListenerSet(ch)
    /\ Len(calls) = Cardinality(ListenerSet(ch))
    /\ \A i, j \in 1..Len(calls) :
           i < j => priorities[<<ch, calls[i]>>] <= priorities[<<ch, calls[j]>>]

\* C7: broadcast calls the handlers of the channel in non-decreasing priority
\* order (lower number first), whatever their priorities, and when none raises
\* it calls every one of them once and returns their results in call order.
C7_BroadcastPriorityOrder ==
    dispatch.mode = "broadcast" =>
        /\ \A i, j \in 1..Len(dispatch.calls) :
               i < j => /\ PriorityOf(dispatch.calls[i]) <= PriorityOf(dispatch.calls[j])
                        /\ dispatch.calls[i] # dispatch.calls[j]
        /\ Range(dispatch.calls) \subseteq ListenerSet(dispatch.channel)
        /\ dispatch.raised = NoError =>
               /\ CallsAllInPriorityOrder(dispatch.calls, dispatch.channel)
               /\ Len(dispatch.returned) = Len(dispatch.calls)
               /\ \A i \in 1..Len(dispatch.calls) :
                      dispatch.returned[i] = ResultOf(dispatch.calls[i], dispatch.beh)

\* C7's case: two handlers that the set iterates in the order opposite to their
\* priorities were broadcast to, and both returned
C7_Witness ==
    /\ dispatch.mode = "broadcast"
    /\ dispatch.raised = NoError
    /\ Len(dispatch.calls) = 2
    /\ PriorityOf(dispatch.calls[1]) < PriorityOf(dispatch.calls[2])
    /\ listeners[dispatch.channel] = <<dispatch.calls[2], dispatch.calls[1]>>
    /\ dispatch.returned[1] # dispatch.returned[2]

\* C8: when the k-th handler in dispatch order is the first to raise, broadcast
\* raises that handler's exception, has called exactly the first k handlers and
\* returns nothing.
C8_BroadcastAbortsOnFirstException ==
    dispatch.mode = "broadcast" =>
        \A k \in 1..Len(DispatchOrder) :
            ( /\ dispatch.beh[DispatchOrder[k]] = "raise"
              /\ \A i \in 1..(k - 1) : dispatch.beh[DispatchOrder[i]] # "raise" )
            => /\ dispatch.raised = ErrorOf(DispatchOrder[k])
               /\ dispatch.calls = SubSeq(DispatchOrder, 1, k)
               /\ dispatch.returned = NoneV

\* C8's case: the first of two handlers raised and the second was not called
C8_Witness ==
    /\ dispatch.mode = "broadcast"
    /\ Len(DispatchOrder) = 2
    /\ dispatch.beh[DispatchOrder[1]] = "raise"
    /\ dispatch.raised = ErrorOf(DispatchOrder[1])
    /\ dispatch.calls = <<DispatchOrder[1]>>

C10_SendOneLowestPriority ==
    (dispatch.mode = "send_one" /\ ListenerSet(dispatch.channel) # {}) =>
        /\ Len(dispatch.calls) = 1
        /\ dispatch.calls[1] \in ListenerSet(dispatch.channel)
        /\ \A l \in ListenerSet(dispatch.channel) :
               PriorityOf(dispatch.calls[1]) <= PriorityOf(l)
        /\ IF dispatch.beh[dispatch.calls[1]] = "raise"
           THEN dispatch.raised = ErrorOf(dispatch.calls[1])
           ELSE /\ dispatch.raised = NoError
                /\ dispatch.returned = ResultOf(dispatch.calls[1], dispatch.beh)

\* C10's case: of two handlers the one iterated last has the lower priority
\* number, and it alone was called and its value returned
C10_Witness ==
    /\ dispatch.mode = "send_one"
    /\ dispatch.channel \in DOMAIN listeners
    /\ Len(listeners[dispatch.channel]) = 2
    /\ dispatch.calls = <<listeners[dispatch.channel][2]>>
    /\ PriorityOf(listeners[dispatch.channel][2]) < PriorityOf(listeners[dispatch.channel][1])
    /\ dispatch.returned = <<"result", dispatch.calls[1]>>

\* C11: send_one on a channel without handlers (a lifecycle channel nobody
\* subscribed to, a channel whose handlers were all unsubscribed, a channel that
\* was never subscribed to) raises NoListenersError and calls nothing.
C11_SendOneNoListeners ==
    (dispatch.mode = "send_one" /\ ListenerSet(dispatch.channel) = {}) =>
        /\ dispatch.raised = <<"NoListenersError">>
        /\ dispatch.calls = <<>>

\* C12: send_any calls the handlers in priority order and stops at the first
\* one that returns a value, which it returns; it returns None only when every
\* handler of the channel was called and returned None.
C12_SendAnyShortCircuits ==
    (dispatch.mode = "send_any" /\ dispatch.channel \in DOMAIN listeners) =>
        /\ CallsAllInPriorityOrder(DispatchOrder, dispatch.channel)
        /\ dispatch.calls = SubSeq(DispatchOrder, 1, Len(dispatch.calls))
        /\ \A k \in 1..Len(DispatchOrder) :
               ( /\ dispatch.beh[DispatchOrder[k]] = "value"
                 /\ \A i \in 1..(k - 1) : dispatch.beh[DispatchOrder[i]] = "none" )
               => /\ dispatch.calls = SubSeq(DispatchOrder, 1, k)
                  /\ dispatch.returned = ResultOf(DispatchOrder[k], dispatch.beh)
                  /\ dispatch.raised = NoError
        /\ (dispatch.raised = NoError /\ dispatch.returned = NoneV)
               <=> \A l \in ListenerSet(dispatch.channel) : dispatch.beh[l] = "none"
        /\ (dispatch.raised = NoError /\ dispatch.returned = NoneV)
               => dispatch.calls = DispatchOrder

\* C12's case: of two handlers the first returned None and the second a value
\* that send_any returned
C12_Witness ==
    /\ dispatch.mode = "send_any"
    /\ Len(DispatchOrder) = 2
    /\ dispatch.beh[DispatchOrder[1]] = "none"
    /\ dispatch.beh[DispatchOrder[2]] = "value"
    /\ dispatch.calls = DispatchOrder
    /\ dispatch.returned = <<"result", DispatchOrder[2]>>

\* C13: handlers of one channel with equal priorities are dispatched in the
\* order in which they were subscribed: a callback newly subscribed to a channel
\* comes, in the order every dispatch uses, after the callbacks of the same
\* priority that were there before.
C13_TiesBySubscriptionOrder ==
    [][\A ch \in BusChannels, cb \in Handlers :
          (cb \notin ListenerSet(ch) /\ cb \in ListenerSet(ch)') =>
              LET order == SortListeners(ch)'.pairs
              IN  \A i, j \in 1..Len(order) :
                      (i # j /\ order[j][2] = cb /\ order[i][1] = order[j][1]) => i < j
      ]_vars

\* C37: when the server exits, every handler subscribed on ON_EXIT is called
\* once, also when handlers called before it raise, and exit goes on to
\* ae.quit: the delivery raises nothing.
C37_CooperativeExit ==
    dispatch.mode = "exit" =>
        /\ dispatch.raised = NoError
        /\ Range(dispatch.calls) = ListenerSet(OnExitChannel)
        /\ Len(dispatch.calls) = Cardinality(ListenerSet(OnExitChannel))

\* C37's case: the first teardown called raised and the second was called
C37_Witness ==
    /\ dispatch.mode = "exit"
    /\ Len(dispatch.calls) = 2
    /\ dispatch.beh[dispatch.calls[1]] = "raise"

\* C40: the priority table has an entry for <<channel, handler>> exactly when
\* the handler is in the channel's listener set; so no dispatch fails on a
\* missing priority, and a dispatch calls only handlers that are subscribed
\* when it is made.
C40_BusBookkeeping ==
    /\ \A ch \in BusChannels, h \in Handlers :
           <<ch, h>> \in DOMAIN priorities <=> h \in ListenerSet(ch)
    /\ \A ch \in DOMAIN listeners : SortListeners(ch).error = NoError
    /\ dispatch # NoDispatch => Range(dispatch.calls) \subseteq ListenerSet(dispatch.channel)

\* C40's case: a broadcast on a channel that exists only because a handler
\* subscribed to it, made after that handler was unsubscribed and while a
\* handler is subscribed elsewhere: nothing is called and nothing is raised
C40_Witness ==
    /\ dispatch.mode = "broadcast"
    /\ dispatch.channel = "test-channel"
    /\ "test-channel" \in DOMAIN listeners
    /\ listeners["test-channel"] = <<>>
    /\ dispatch.calls = <<>>
    /\ dispatch.raised = NoError
    /\ Cardinality(DOMAIN priorities) = 1

(***************************************************************************)
(* SpecStorage: InMemoryStorage driven by the events it subscribes to      *)
(* (StorageBase.__init__), each delivered with any argument, and by the    *)
(* writes a front-end makes to the file ON_GET_FILE returned               *)
(***************************************************************************)
\* the datasets ON_STORE_DONE and ON_STORE_FAILURE are delivered with: any
\* SOPInstanceUID, or an object without that attribute
EventDatasets ==
    {Dataset(NoneV, NoneV, NoneV, NoneV, <<u>>, NoneV) : u \in SopUids} \cup {Garbage}

\* ON_GET_FILE
StorageOnGetFile ==
    /\ lastEvent = NoEvent
    /\ \E uid \in SopUids, cls \in SopClasses :
        LET r == OnGetFile(St, uid, cls)
        IN  /\ SetSt(r.st)
            /\ lastEvent' = [NewEvent("on-get-file") EXCEPT !.uid = <<uid>>, !.raised = r.raised]
            /\ UNCHANGED doneFired
            /\ UNCHANGED notStorageVars

\* the front-end writes what it received into the file of an open record: the
\* dataset of that instance, or bytes that are no dataset
StorageWrite ==
    /\ lastEvent = NoEvent
    /\ \E uid \in DOMAIN tempFiles :
        \E payload \in {Dataset(NoneV, NoneV, NoneV, NoneV, <<uid>>, NoneV), Garbage} :
            /\ tempFiles' = [tempFiles EXCEPT ![uid] = <<payload>>]
            /\ lastEvent' = [NewEvent("write") EXCEPT !.uid = <<uid>>]
            /\ UNCHANGED <<storageFiles, storedFiles, doneFired>>
            /\ UNCHANGED notStorageVars

\* ON_STORE_DONE
StorageOnStoreDone ==
    /\ lastEvent = NoEvent
    /\ \E ds \in EventDatasets :
        LET r == OnStoreDone(St, ds)
        IN  /\ SetSt(r.st)
            /\ lastEvent' = [NewEvent("on-store-done") EXCEPT
                                !.uid = ds.SOPInstanceUID, !.raised = r.raised]
            /\ doneFired' = doneFired \cup
                   {u \in DOMAIN storageFiles : ds.SOPInstanceUID = <<u>>}
            /\ UNCHANGED notStorageVars

\* ON_STORE_FAILURE
StorageOnStoreFailure ==
    /\ lastEvent = NoEvent
    /\ \E ds \in EventDatasets :
        LET r == OnStoreFailure(St, ds)
        IN  /\ SetSt(r.st)
            /\ lastEvent' = [NewEvent("on-store-failure") EXCEPT
                                !.uid = ds.SOPInstanceUID, !.raised = r.raised]
            /\ doneFired' = doneFired \cap DOMAIN r.st.files
            /\ UNCHANGED notStorageVars

\* ON_GET_FILES
StorageOnGetFiles ==
    /\ lastEvent = NoEvent
    /\ \E uids \in SUBSET SopUids :
        LET r == OnStoreGetFiles(St, uids)
        IN  /\ lastEvent' = [NewEvent("on-store-get-files") EXCEPT
                                !.uids = uids, !.raised = r.raised, !.files = r.files]
            /\ UNCHANGED <<storageFiles, tempFiles, storedFiles, doneFired>>
            /\ UNCHANGED notStorageVars

\* ON_STORE_VERIFY as PACS.on_commitment broadcasts it, for a list that names
\* one or two instances of one SOP class, and the two lists on_commitment
\* returns
StorageOnVerify ==
    /\ lastEvent = NoEvent
    /\ \E cls \in SopClasses, u1 \in SopUids, u2 \in SopUids :
        LET instances == {<<cls, u1>>, <<cls, u2>>}
            r == OnCommitment(St, instances)
        IN  lastEvent' = [NewEvent("on-store-verify") EXCEPT
                             !.uids = {i[2] : i \in instances},
                             !.instances = instances,
                             !.success = r.success, !.failure = r.failure]
    /\ UNCHANGED <<storageFiles, tempFiles, storedFiles, doneFired>>
    /\ UNCHANGED notStorageVars

\* the handler has returned to the publisher of the event
StorageReturn ==
    /\ lastEvent # NoEvent
    /\ lastEvent' = NoEvent
    /\ UNCHANGED <<storageFiles, tempFiles, storedFiles, doneFired>>
    /\ UNCHANGED notStorageVars

InitStorage == BusInit /\ StorageInit /\ IndexInit /\ FlowInit /\ MoveInit /\ AEInit /\ DevInit /\ FsInit /\ QueryInit

NextStorage ==
    \/ StorageOnGetFile
    \/ StorageWrite
    \/ StorageOnStoreDone
    \/ StorageOnStoreFailure
    \/ StorageOnGetFiles
    \/ StorageOnVerify
    \/ StorageReturn

SpecStorage == InitStorage /\ [][NextStorage]_vars

(***************************************************************************)
(* Claims about the storage, under SpecStorage                             *)
(***************************************************************************)
\* a record for u exists and ON_STORE_DONE was delivered for it
DoneRecord(u) == u \in DOMAIN storageFiles /\ u \in doneFired

\* a record for u exists and ON_STORE_DONE was not delivered for it yet
InFlight(u) == u \in DOMAIN storageFiles /\ u \notin doneFired

\* C1: whatever ON_GET_FILE, ON_STORE_DONE and ON_STORE_FAILURE events came
\* before, every instance ON_GET_FILES returns and every instance
\* ON_STORE_VERIFY counts as a success has a record for which ON_STORE_DONE was
\* delivered; a record in flight is neither returned nor counted.
C1_StorageVisibility ==
    /\ lastEvent.op = "on-store-get-files" =>
           /\ \A f \in lastEvent.files : DoneRecord(f[2])
           /\ \A u \in SopUids : InFlight(u) => \A f \in lastEvent.files : f[2] # u
    /\ lastEvent.op = "on-store-verify" =>
           /\ \A i \in lastEvent.success : DoneRecord(i[2])
           /\ \A u \in SopUids : InFlight(u) => \A i \in lastEvent.success : i[2] # u

\* C1's case: ON_GET_FILES was asked for a committed instance and for one in
\* flight, and returned the committed one
C1_Witness ==
    /\ lastEvent.op = "on-store-get-files"
    /\ \E u \in lastEvent.uids : InFlight(u)
    /\ \E v \in lastEvent.uids : \E f \in lastEvent.files : f[2] = v

\* C2: a record appears only by ON_GET_FILE for its UID and appears with
\* is_stored false; its flag changes only by ON_STORE_DONE for its UID, which
\* sets it; the record disappears only by ON_STORE_FAILURE for its UID; and
\* ON_STORE_DONE / ON_STORE_FAILURE delivered for the UID of an existing record
\* do set the flag / delete the record.
C2_RecordLifecycle ==
    [][\A u \in SopUids :
        /\ (u \notin DOMAIN storageFiles /\ u \in DOMAIN storageFiles') =>
               /\ lastEvent'.op = "on-get-file"
               /\ lastEvent'.uid = <<u>>
               /\ storageFiles'[u].is_stored = FALSE
        /\ (/\ u \in DOMAIN storageFiles
            /\ u \in DOMAIN storageFiles'
            /\ storageFiles'[u] # storageFiles[u]) =>
               /\ lastEvent'.op = "on-store-done"
               /\ lastEvent'.uid = <<u>>
               /\ storageFiles'[u] = [storageFiles[u] EXCEPT !.is_stored = TRUE]
        /\ (u \in DOMAIN storageFiles /\ u \notin DOMAIN storageFiles') =>
               /\ lastEvent'.op = "on-store-failure"
               /\ lastEvent'.uid = <<u>>
        /\ (/\ lastEvent'.op = "on-store-done"
            /\ lastEvent'.uid = <<u>>
            /\ u \in DOMAIN storageFiles) =>
               /\ u \in DOMAIN storageFiles'
               /\ storageFiles'[u].is_stored = TRUE
        /\ (/\ lastEvent'.op = "on-store-failure"
            /\ lastEvent'.uid = <<u>>
            /\ u \in DOMAIN storageFiles) =>
               u \notin DOMAIN storageFiles'
      ]_vars

\* C2's case: one record was created and committed, another was created and
\* has just been deleted by ON_STORE_FAILURE
C2_Witness ==
    /\ lastEvent.op = "on-store-failure"
    /\ lastEvent.raised = NoError
    /\ \A u \in SopUids : lastEvent.uid = <<u>> => u \notin DOMAIN storageFiles
    /\ \E v \in DOMAIN storageFiles : storageFiles[v].is_stored /\ v \in doneFired

\* a record for uid exists, is marked as stored and carries the SOP class cls
CommittedRecord(cls, uid) ==
    /\ uid \in DOMAIN storageFiles
    /\ storageFiles[uid].is_stored = TRUE
    /\ storageFiles[uid].sop_class_uid = cls

C27_SopClassNotUnique ==
    [][\A u \in SopUids :
          (/\ lastEvent'.op = "on-get-file"
           /\ lastEvent'.uid = <<u>>
           /\ u \notin DOMAIN storageFiles)
              => /\ lastEvent'.raised = NoError
                 /\ u \in DOMAIN storageFiles'
      ]_vars

\* C39: after any sequence of ON_GET_FILE, ON_STORE_DONE and ON_STORE_FAILURE
\* events, failed ones included, every committed record has a cached parsed
\* dataset, so that ON_GET_FILES does not fail on a committed UID, and every
\* uncommitted record has its in-flight buffer.
C39_InMemoryConsistent ==
    \A uid \in DOMAIN storageFiles :
        IF storageFiles[uid].is_stored
        THEN /\ uid \in DOMAIN storedFiles
             /\ OnStoreGetFiles(St, {uid}).raised = NoError
        ELSE uid \in DOMAIN tempFiles

(***************************************************************************)
(* SpecIndex: PACS.c_store applied to any parsed dataset, and applied once *)
(* more with the dataset it has just stored                                *)
(***************************************************************************)
\* the parsed datasets c_store is given: every attribute present or absent.
\* c_store reads PatientID and PatientName, then StudyInstanceUID, then
\* SeriesInstanceUID, then SOPInstanceUID, and stops at the first identifier it
\* misses, so the attributes it would read after a missing one are left absent.
IndexDatasets ==
    {ds \in {Dataset(pid, pname, study, series, sop, <<1>>) :
                pid \in Optional(PatientIds), pname \in Optional(PatientNames),
                study \in Optional(StudyUids), series \in Optional(SeriesUids),
                sop \in Optional(IndexSopUids)} :
        /\ ds.PatientID = NoneV => ds.StudyInstanceUID = NoneV
        /\ ds.StudyInstanceUID = NoneV => ds.SeriesInstanceUID = NoneV
        /\ ds.SeriesInstanceUID = NoneV => ds.SOPInstanceUID = NoneV}

\* PACS.c_store(ds)
IndexCStore ==
    /\ lastStore = NoStore
    /\ \E ds \in IndexDatasets :
        LET r == CStore(Idx, ds)
        IN  /\ SetIdx(r.idx)
            /\ lastStore' = [NewStore("c_store", IF r.raised = NoError THEN ds ELSE Garbage)
                                EXCEPT !.patient_id = ds.PatientID,
                                       !.raised = r.raised, !.level = r.level,
                                       !.written = r.written]
    /\ UNCHANGED notIndexVars

\* PACS.c_store(ds) again, with the dataset the last call stored
IndexCStoreAgain ==
    /\ lastStore.op = "c_store"
    /\ lastStore.raised = NoError
    /\ LET r == CStore(Idx, lastStore.ds)
       IN  /\ SetIdx(r.idx)
           /\ lastStore' = [NewStore("c_store again", lastStore.ds) EXCEPT
                               !.raised = r.raised, !.level = r.level, !.written = r.written]
    /\ UNCHANGED notIndexVars

\* c_store has returned to its caller
IndexReturn ==
    /\ lastStore # NoStore
    /\ lastStore' = NoStore
    /\ UNCHANGED <<patientRows, studyRows, seriesRows, instanceRows>>
    /\ UNCHANGED notIndexVars

InitIndex == BusInit /\ StorageInit /\ IndexInit /\ FlowInit /\ MoveInit /\ AEInit /\ DevInit /\ FsInit /\ QueryInit

NextIndex ==
    \/ IndexCStore
    \/ IndexCStoreAgain
    \/ IndexReturn

SpecIndex == InitIndex /\ [][NextIndex]_vars

(***************************************************************************)
(* Claims about C-STORE on the entity tables, under SpecIndex              *)
(***************************************************************************)
\* the index holds exactly one row for each identifier the dataset names
OneRowEach(idx, ds) ==
    /\ Cardinality({p \in idx.patients : <<p.patient_id>> = ds.PatientID}) = 1
    /\ Cardinality({s \in idx.studies : <<s.study_instance_uid>> = ds.StudyInstanceUID}) = 1
    /\ Cardinality({s \in idx.series : <<s.series_instance_uid>> = ds.SeriesInstanceUID}) = 1
    /\ Cardinality({i \in idx.instances : <<i.sop_instance_uid>> = ds.SOPInstanceUID}) = 1

\* C4: a c_store that raises, at whatever level, leaves the Patient, Study,
\* Series and Instance tables as they were before the call, whatever its steps
\* had written before the one that raised.
C4_CStoreAtomic ==
    [][(lastStore'.op \in {"c_store", "c_store again"} /\ lastStore'.raised # NoError)
        => UNCHANGED <<patientRows, studyRows, seriesRows, instanceRows>>]_vars

\* C4's case: the Patient, Study and Series steps each wrote a row, the
\* Instance step raised, and none of these rows is in the tables
C4_Witness ==
    /\ lastStore.op = "c_store"
    /\ lastStore.raised # NoError
    /\ lastStore.level = "IMAGE"
    /\ lastStore.written.patients \ patientRows # {}
    /\ lastStore.written.studies \ studyRows # {}
    /\ lastStore.written.series \ seriesRows # {}

\* C5: a c_store that returned, called again with the same dataset, returns
\* again and leaves the four tables as the first call left them; after either
\* call there is exactly one Patient, Study, Series and Instance row for the
\* dataset's PatientID, StudyInstanceUID, SeriesInstanceUID and SOPInstanceUID.
C5_CStoreIdempotent ==
    [][/\ lastStore'.op = "c_store again" =>
              /\ lastStore'.raised = NoError
              /\ UNCHANGED <<patientRows, studyRows, seriesRows, instanceRows>>
       /\ (lastStore'.op \in {"c_store", "c_store again"} /\ lastStore'.raised = NoError)
              => OneRowEach(Idx', lastStore'.ds)
      ]_vars

\* C5's case: a dataset was stored twice in an index that holds another
\* instance as well
C5_Witness ==
    /\ lastStore.op = "c_store again"
    /\ lastStore.raised = NoError
    /\ OneRowEach(Idx, lastStore.ds)
    /\ Cardinality(instanceRows) = 2

\* C28: the patient upsert of C-STORE is keyed on PatientID only: a c_store
\* whose PatientID is that of an existing Patient row reuses the row, whatever
\* name the dataset carries; its Patient step does not raise and the Patient
\* table stays as it was (no second Patient with that PatientID is inserted).
C28_PatientUpsertByPatientID ==
    [][\A pid \in PatientIds :
          (/\ lastStore'.op \in {"c_store", "c_store again"}
           /\ lastStore'.patient_id = <<pid>>
           /\ \E p \in patientRows : p.patient_id = pid)
              => /\ ~(lastStore'.level = "PATIENT" /\ lastStore'.raised # NoError)
                 /\ lastStore'.written.patients = patientRows
                 /\ patientRows' = patientRows
      ]_vars

\* C29: entities are never mutated after creation: whatever dataset a c_store
\* is called with, every Patient, Study, Series and Instance row that existed
\* before the call exists after it with the same attributes and the same
\* parent reference.
C29_EntitiesNeverMutated ==
    [][/\ patientRows \subseteq patientRows'
       /\ studyRows \subseteq studyRows'
       /\ seriesRows \subseteq seriesRows'
       /\ instanceRows \subseteq instanceRows'
      ]_vars

\* C29's case: a c_store that returned named a Study that exists under
\* another patient and a Series that exists under another study, and both
\* rows are as they were
C29_Witness ==
    /\ lastStore.op = "c_store"
    /\ lastStore.raised = NoError
    /\ \E s \in studyRows :
           /\ <<s.study_instance_uid>> = lastStore.ds.StudyInstanceUID
           /\ <<s.patient>> # lastStore.ds.PatientID
    /\ \E s \in seriesRows :
           /\ <<s.series_instance_uid>> = lastStore.ds.SeriesInstanceUID
           /\ <<s.study>> # lastStore.ds.StudyInstanceUID

(***************************************************************************)
(* SpecFlow: the server with its default components.  A C-STORE is         *)
(* ON_GET_FILE (AE.get_file), then the dataset received into the file, then *)
(* STORE (PACS.on_store); a successful C-STORE may be followed by a C-FIND *)
(* and a C-MOVE at IMAGE level for the instance just stored.               *)
(***************************************************************************)
\* the SOP classes the C-STORE command sets name
StoreClasses == {1, 2}

\* what the front-end receives as the dataset of a C-STORE: datasets of one
\* patient, with or without StudyInstanceUID and SOPInstanceUID, and bytes
\* that are no dataset
FlowPayloads ==
    {Dataset(<<1>>, NoneV, study, <<series>>, sop, NoneV) :
        study \in Optional(StudyUids), series \in SeriesUids,
        sop \in Optional(IndexSopUids)} \cup {Garbage}

\* AE.get_file: ON_GET_FILE for a command set naming uid and cls; one C-STORE
\* at a time is in progress for a SOP instance UID
FlowGetFile ==
    /\ lastRequest = NoRequest
    /\ \E uid \in IndexSopUids \ inProgress, cls \in StoreClasses :
        LET r == OnGetFile(St, uid, cls)
        IN  /\ SetSt(r.st)
            /\ inProgress' = IF r.raised = NoError THEN inProgress \cup {uid} ELSE inProgress
            /\ lastRequest' = [NewRequest("GET_FILE") EXCEPT
                                  !.handle = <<uid>>, !.raised = r.raised]
    /\ UNCHANGED <<doneFired, lastEvent, indexVars, busVars, moveVars, aeVars, devVars, fsVars, queryVars>>

\* the dataset of the C-STORE opened for uid has arrived in its file and
\* AE.on_receive_store broadcasts STORE: PACS.on_store
FlowStore ==
    /\ lastRequest = NoRequest
    /\ \E uid \in inProgress, payload \in FlowPayloads :
        LET fp == <<payload>>
            received == IF uid \in DOMAIN tempFiles
                        THEN [St EXCEPT !.temp[uid] = fp] ELSE St
            r == OnStore(received, Idx, fp)
        IN  /\ SetSt(r.st)
            /\ SetIdx(r.idx)
            /\ inProgress' = inProgress \ {uid}
            /\ lastRequest' = [NewRequest("STORE") EXCEPT
                                  !.handle = <<uid>>, !.ds = r.ds, !.trace = r.trace,
                                  !.returned = r.returned, !.raised = r.raised]
    /\ UNCHANGED <<doneFired, lastEvent, lastStore, busVars, moveVars, aeVars, devVars, fsVars, queryVars>>

\* C-FIND at IMAGE level with empty StudyInstanceUID, SeriesInstanceUID and
\* SOPInstanceUID keys, after a C-STORE that returned SUCCESS
FlowFind ==
    /\ lastRequest.op = "STORE"
    /\ lastRequest.returned = <<"SUCCESS">>
    /\ lastRequest' = [lastRequest EXCEPT
           !.op = "FIND",
           !.rows = InstanceCFind(Idx, [StudyInstanceUID |-> NoneV,
                                        SeriesInstanceUID |-> NoneV,
                                        SOPInstanceUID |-> NoneV])]
    /\ UNCHANGED <<inProgress, storageVars, indexVars, busVars, moveVars, aeVars, devVars, fsVars, queryVars>>

\* C-MOVE at IMAGE level for the UIDs of the dataset the last C-STORE stored
FlowMove ==
    /\ lastRequest.op \in {"STORE", "FIND"}
    /\ lastRequest.returned = <<"SUCCESS">>
    /\ LET r == OnMove(St, Idx,
                    [QueryRetrieveLevel |-> "IMAGE", PatientID |-> NoneV,
                     StudyInstanceUID |-> <<{lastRequest.ds.StudyInstanceUID[1]}>>,
                     SeriesInstanceUID |-> <<{lastRequest.ds.SeriesInstanceUID[1]}>>,
                     SOPInstanceUID |-> <<{lastRequest.ds.SOPInstanceUID[1]}>>])
       IN  lastRequest' = [lastRequest EXCEPT
               !.op = "MOVE", !.raised = r.raised, !.files = r.files]
    /\ UNCHANGED <<inProgress, storageVars, indexVars, busVars, moveVars, aeVars, devVars, fsVars, queryVars>>

\* the request has been answered
FlowReturn ==
    /\ lastRequest # NoRequest
    /\ lastRequest' = NoRequest
    /\ UNCHANGED <<inProgress, storageVars, indexVars, busVars, moveVars, aeVars, devVars, fsVars, queryVars>>

InitFlow == BusInit /\ StorageInit /\ IndexInit /\ FlowInit /\ MoveInit /\ AEInit /\ DevInit /\ FsInit /\ QueryInit

NextFlow ==
    \/ FlowGetFile
    \/ FlowStore
    \/ FlowFind
    \/ FlowMove
    \/ FlowReturn

SpecFlow == InitFlow /\ [][NextFlow]_vars

(***************************************************************************)
(* Claims about the C-STORE flow, under SpecFlow                           *)
(***************************************************************************)
\* the positions of a step in the trace of the last STORE
TracePositions(step) ==
    {k \in 1..Len(lastRequest.trace) : lastRequest.trace[k] = step}

\* C3: every STORE handled by the query engine broadcasts exactly one of
\* ON_STORE_DONE and ON_STORE_FAILURE; ON_STORE_DONE comes after the commit of
\* the entity transaction and is followed by the return of SUCCESS;
\* ON_STORE_FAILURE comes without a commit and is followed by the return of a
\* failure status.
C3_StoreOutcome ==
    lastRequest.op = "STORE" =>
        /\ Cardinality(TracePositions("ON_STORE_DONE"))
             + Cardinality(TracePositions("ON_STORE_FAILURE")) = 1
        /\ \A k \in TracePositions("ON_STORE_DONE") :
               /\ \E j \in TracePositions("commit") : j < k
               /\ lastRequest.returned = <<"SUCCESS">>
        /\ \A k \in TracePositions("ON_STORE_FAILURE") :
               /\ TracePositions("commit") = {}
               /\ lastRequest.returned = <<"C_STORE_CANNON_UNDERSTAND">>

\* the dataset of the last successful C-STORE
StoredX == lastRequest.ds

\* the index holds X's instance under the Series X names, and that Series
\* under the Study X names
FiledAsNamed(X) ==
    /\ \E i \in instanceRows :
           /\ <<i.sop_instance_uid>> = X.SOPInstanceUID
           /\ <<i.series>> = X.SeriesInstanceUID
    /\ \E s \in seriesRows :
           /\ <<s.series_instance_uid>> = X.SeriesInstanceUID
           /\ <<s.study>> = X.StudyInstanceUID

\* the C-FIND after the C-STORE of X returned exactly one row with X's
\* SOPInstanceUID
FindReturnsX ==
    Cardinality({r \in lastRequest.rows : <<r.SOPInstanceUID>> = StoredX.SOPInstanceUID}) = 1

\* the C-MOVE after the C-STORE of X yielded exactly one artifact: the dataset
\* received for X, under X's SOPInstanceUID
MoveYieldsX ==
    /\ lastRequest.raised = NoError
    /\ Cardinality(lastRequest.files) = 1
    /\ \A f \in lastRequest.files : <<f[2]>> = StoredX.SOPInstanceUID /\ f[3] = StoredX

C30_StoreParseFailure ==
    (lastRequest.op = "STORE" /\ lastRequest.trace[1] = "parse error") =>
        /\ TracePositions("ON_STORE_FAILURE") # {}
        /\ \A u \in IndexSopUids :
               lastRequest.handle = <<u>> => u \notin DOMAIN storageFiles
        /\ lastRequest.raised = NoError
        /\ lastRequest.returned = <<"C_STORE_CANNON_UNDERSTAND">>

\* C38: a committed storage record is never lost: no later request, and in
\* particular no ON_STORE_FAILURE of a later failed C-STORE, deletes it or
\* hides it from ON_GET_FILES and ON_STORE_VERIFY (both read find_files).
C38_CommittedNeverLost ==
    [][\A uid \in DOMAIN storageFiles :
           storageFiles[uid].is_stored =>
               /\ uid \in DOMAIN storageFiles'
               /\ storageFiles'[uid].is_stored
               /\ FindFiles([files |-> storageFiles', temp |-> tempFiles',
                             stored |-> storedFiles'], {uid}) = {uid}]_vars

(***************************************************************************)
(* SpecMove: qr_move_scp serving C-MOVE requests, one at a time, with any  *)
(* list of instances and any outcome of each sub-operation and each send   *)
(***************************************************************************)
\* a C-MOVE request arrives
MoveReceive ==
    /\ move.pc = "idle"
    /\ \E gen \in MoveLists, known, accepted, ok \in BOOLEAN :
        \* what is not looked at is no input
        /\ ~known => (gen = <<>> /\ accepted /\ ok)
        /\ (known /\ gen = <<>>) => accepted
        /\ (known /\ gen # <<>>) => ok
        /\ move' = MoveBegin(gen, known, accepted, ok)
    /\ UNCHANGED notMoveVars

\* the next C-STORE sub-operation and its pending response
MoveNextSubOp ==
    /\ move.pc = "loop"
    /\ move.completed < move.nop
    /\ \E outcome \in SubOpOutcomes, ok \in BOOLEAN :
        /\ outcome = "dropped" => ok
        /\ move' = MoveSubOp(move, outcome, ok)
    /\ UNCHANGED notMoveVars

\* the list is exhausted: the terminal response
MoveFinish ==
    /\ move.pc = "loop"
    /\ move.completed = move.nop
    /\ \E ok \in BOOLEAN : move' = MoveEnd(move, ok)
    /\ UNCHANGED notMoveVars

\* qr_move_scp has returned or raised; the next request can be served
MoveReturn ==
    /\ move.pc \in {"done", "raised"}
    /\ move' = NoMove
    /\ UNCHANGED notMoveVars

InitMove == BusInit /\ StorageInit /\ IndexInit /\ FlowInit /\ MoveInit /\ AEInit /\ DevInit /\ FsInit /\ QueryInit

NextMove ==
    \/ MoveReceive
    \/ MoveNextSubOp
    \/ MoveFinish
    \/ MoveReturn

SpecMove == InitMove /\ [][NextMove]_vars

(***************************************************************************)
(* Claims about the C-MOVE service, under SpecMove                         *)
(***************************************************************************)
\* the number of sub-operations among the first k that ended with outcome o
CountOutcome(o, k) == Cardinality({i \in 1..k : move.outcomes[i] = o})

\* the C-MOVE has ended, by return or by an exception
MoveOver == move.pc \in {"done", "raised"} /\ move.known

\* C14: a C-MOVE over a non-empty list of N instances opens exactly one
\* outbound association, performs exactly N C-STORE sub-operations in list
\* order, emits one pending response after each and then one terminal response
\* with status SUCCESS, N + 1 responses in all, however the sub-operations end.
C14_MoveResponseSequence ==
    (MoveOver /\ move.nop > 0) =>
        /\ move.associations = 1
        /\ move.subops = [k \in 1..move.nop |-> <<move.gen[k], k - 1>>]
        /\ Len(move.sent) = move.nop + 1
        /\ \A k \in 1..move.nop : move.sent[k].status = "PENDING"
        /\ move.sent[move.nop + 1].status = "SUCCESS"

\* C15: a C-MOVE with an empty instance list emits exactly one response, a
\* terminal SUCCESS whose remaining, completed, failed and warning counters are
\* zero, performs no sub-operation and opens no outbound association.
C15_MoveEmptyList ==
    (MoveOver /\ move.gen = <<>>) =>
        /\ move.sent = <<[status |-> "SUCCESS", remaining |-> 0, completed |-> 0,
                          failed |-> 0, warning |-> 0]>>
        /\ move.subops = <<>>
        /\ move.associations = 0

\* C15's case: a C-MOVE to a known destination that selected nothing has
\* returned
C15_Witness ==
    /\ move.pc = "done"
    /\ move.known
    /\ move.gen = <<>>
    /\ Len(move.sent) = 1

\* C16: the pending response emitted after the k-th of N sub-operations reports
\* remaining = N - k, completed = the number of the first k sub-operations that
\* succeeded, failed = the number that failed, warning = the number that ended
\* in a warning.
C16_PendingCounters ==
    \A k \in 1..Len(move.sent) :
        move.sent[k].status = "PENDING" =>
            /\ move.sent[k].remaining = move.nop - k
            /\ move.sent[k].completed = CountOutcome("success", k)
            /\ move.sent[k].failed = CountOutcome("failure", k)
            /\ move.sent[k].warning = CountOutcome("warning", k)

\* C17: the terminal response of a C-MOVE over N instances reports
\* remaining = 0, completed = the number of successful sub-operations, failed =
\* the number of failed ones, warning = the number of warnings, and these three
\* add up to N.
C17_TerminalCounters ==
    \A k \in 1..Len(move.sent) :
        move.sent[k].status = "SUCCESS" =>
            /\ move.sent[k].remaining = 0
            /\ move.sent[k].completed = CountOutcome("success", move.nop)
            /\ move.sent[k].failed = CountOutcome("failure", move.nop)
            /\ move.sent[k].warning = CountOutcome("warning", move.nop)
            /\ move.sent[k].completed + move.sent[k].failed + move.sent[k].warning
                   = move.nop

\* C18: when a send fails inside the sub-operation loop because an association
\* was dropped (the C-STORE of a sub-operation, or the pending response), no
\* exception leaves the loop and the failed counter counts the failure.
C18_DroppedAssociationCounted ==
    (move.associations = 1 /\ Len(move.sent) <= move.nop) =>
        /\ move.raised = NoError
        /\ move.failed = CountOutcome("failure", Len(move.outcomes))
                           + CountOutcome("dropped", Len(move.outcomes))

(***************************************************************************)
(* SpecAE: an AE with any configuration, components subscribing handlers   *)
(* to ASSOC and STORE, and the transport's association requests and        *)
(* C-STOREs, one at a time                                                 *)
(***************************************************************************)
\* the callback AE.__init__ subscribes to MAIN_AET: AE.get_main_aet
GetMainAet == 0

\* a component subscribes a handler to ASSOC or STORE
AESubscribe ==
    /\ lastCall = NoCall
    /\ \E ch \in {AssocChannel, StoreChannel}, cb \in Handlers, priority \in PriorityArgs :
        /\ <<ch, cb>> \notin DOMAIN priorities
        /\ Cardinality({k \in DOMAIN priorities : k[2] \in Handlers}) < MaxSubscriptions
        /\ Subscribe(ch, cb, priority, NoneV)
    /\ UNCHANGED <<ae, lastCall>>
    /\ UNCHANGED notAEVars

\* the transport hands an association request to the AE
AEAssociationRequest ==
    /\ lastCall = NoCall
    /\ \E called \in CalledTitles : \E beh \in BehavioursOn(AssocChannel) :
        LET r == OnAssociationRequest(ae, called, beh)
        IN  /\ Strip(called) \notin Range(ae.valid_aet) =>
                   \A h \in Handlers : beh[h] = "none"
            /\ dispatch' = r.dispatch
            /\ lastCall' = r.call
    /\ UNCHANGED <<listeners, priorities, ae>>
    /\ UNCHANGED notAEVars

\* the transport hands a received C-STORE to the AE; a STORE handler returns a
\* status or raises
AEReceiveStore ==
    /\ lastCall = NoCall
    /\ \E readable \in BOOLEAN, is_success \in [Handlers -> BOOLEAN] :
        \E beh \in BehavioursOn(StoreChannel) :
            LET r == OnReceiveStore(ae, readable, beh, is_success)
            IN  /\ \A h \in ListenerSet(StoreChannel) : beh[h] # "none"
                /\ \A h \in Handlers : beh[h] # "value" => is_success[h]
                /\ ~ae.dump_ds => readable
                /\ (ae.dump_ds /\ ~readable) =>
                       \A h \in Handlers : beh[h] \in {"none", "raise"}
                /\ dispatch' = r.dispatch
                /\ lastCall' = r.call
    /\ UNCHANGED <<listeners, priorities, ae>>
    /\ UNCHANGED notAEVars

\* the callback has returned to the transport
AEReturn ==
    /\ lastCall # NoCall
    /\ lastCall' = NoCall
    /\ dispatch' = NoDispatch
    /\ UNCHANGED <<listeners, priorities, ae>>
    /\ UNCHANGED notAEVars

\* the bus after AE.__init__, which subscribes get_main_aet (ae.py:55)
InitAE ==
    /\ listeners = DictSet([ch \in DefaultChannels |-> <<>>], "get-main-aet", <<GetMainAet>>)
    /\ priorities = [k \in {<<"get-main-aet", GetMainAet>>} |-> DefaultPriority]
    /\ dispatch = NoDispatch
    /\ \E config \in AEConfigs : ae = NewAE(config)
    /\ lastCall = NoCall
    /\ StorageInit /\ IndexInit /\ FlowInit /\ MoveInit /\ DevInit /\ FsInit /\ QueryInit

NextAE ==
    \/ AESubscribe
    \/ AEAssociationRequest
    \/ AEReceiveStore
    \/ AEReturn

SpecAE == InitAE /\ [][NextAE]_vars

(***************************************************************************)
(* Claims about the AE front-end, under SpecAE                             *)
(***************************************************************************)
\* C19: an association request whose called AE title (blanks around it apart)
\* is not in AE.valid_aet is rejected with result 1, source 1, reason 7, and
\* ASSOC is not broadcast: no ASSOC handler is called.  A request whose called
\* AE title is in AE.valid_aet broadcasts ASSOC exactly once.
C19_AssociationValidation ==
    lastCall.op = "assoc" =>
        IF Strip(lastCall.called) \in Range(ae.valid_aet)
        THEN /\ lastCall.rejection = <<>>
             /\ lastCall.broadcasts = <<AssocChannel>>
             /\ dispatch.mode = "broadcast"
             /\ dispatch.channel = AssocChannel
        ELSE /\ lastCall.rejection = <<1, 1, 7>>
             /\ lastCall.raised = <<"AssociationRejectedError">>
             /\ lastCall.broadcasts = <<>>
             /\ dispatch = NoDispatch

\* C19's case: a request for a title that is not configured was rejected while
\* a handler was subscribed to ASSOC, and the handler was not called
C19_Witness ==
    /\ lastCall.op = "assoc"
    /\ lastCall.rejection = <<1, 1, 7>>
    /\ ListenerSet(AssocChannel) # {}
    /\ dispatch.calls = <<>>
    /\ Len(ae.valid_aet) = 2

\* the positions, in dispatch order, of the STORE handlers that returned a
\* status that is no success
NonSuccessCalls ==
    {i \in 1..Len(dispatch.calls) : ~lastCall.is_success[dispatch.calls[i]]}

\* C20: on_receive_store returns SUCCESS exactly when every STORE handler
\* returned a success status; when every handler returned a status and one of
\* them is no success, it returns the status of the first such handler in
\* dispatch order.
C20_StoreStatus ==
    (lastCall.op = "store" /\ lastCall.broadcasts # <<>>) =>
        /\ lastCall.returned = StatusSuccess
               <=> (dispatch.raised = NoError /\ NonSuccessCalls = {})
        /\ (dispatch.raised = NoError /\ NonSuccessCalls # {}) =>
               /\ dispatch.calls = DispatchOrder
               /\ lastCall.raised = NoError
               /\ \E i \in NonSuccessCalls :
                      /\ \A j \in NonSuccessCalls : i <= j
                      /\ lastCall.returned = ResultOf(dispatch.calls[i], dispatch.beh)

\* C20's case: two STORE handlers both returned a status that is no success,
\* and the status of the one dispatched first was returned
C20_Witness ==
    /\ lastCall.op = "store"
    /\ dispatch.raised = NoError
    /\ Len(dispatch.calls) = 2
    /\ NonSuccessCalls = {1, 2}
    /\ lastCall.returned = <<"result", dispatch.calls[1]>>

(***************************************************************************)
(* SpecDimse: an AE with the default configuration and a Devices component *)
(* with or without configured devices; components subscribe handlers to    *)
(* STORE, FIND, MOVE, GET and COMMITMENT, and the transport hands the      *)
(* requests it receives to the AE, one at a time                           *)
(***************************************************************************)
DimseChannels == {StoreChannel, FindChannel, MoveChannel, GetChannel, CommitmentChannel}

\* a component subscribes a handler to a channel of the AE
DimseSubscribe ==
    /\ lastCall = NoCall
    /\ \E ch \in DimseChannels, cb \in Handlers, priority \in {<<40>>, NoneV} :
        /\ <<ch, cb>> \notin DOMAIN priorities
        /\ Cardinality({k \in DOMAIN priorities : k[2] \in Handlers}) < MaxSubscriptions
        /\ Subscribe(ch, cb, priority, NoneV)
    /\ UNCHANGED <<ae, lastCall>>
    /\ UNCHANGED notAEVars

\* the transport hands a C-FIND to the AE and sends every response the
\* callback yields
DimseReceiveFind ==
    /\ lastCall = NoCall
    /\ \E beh \in BehavioursOn(FindChannel), lazy \in [Handlers -> BOOLEAN] :
        LET r == OnReceiveFind(beh, lazy)
        IN  /\ \A h \in Handlers : lazy[h] => beh[h] = "value"
            /\ dispatch' = r.dispatch
            /\ lastCall' = r.call
    /\ UNCHANGED <<listeners, priorities, ae>>
    /\ UNCHANGED notAEVars

\* the transport hands a C-MOVE to the AE
DimseReceiveMove ==
    /\ lastCall = NoCall
    /\ \E destination \in Destinations : \E beh \in BehavioursOn(MoveChannel) :
        LET r == OnReceiveMove(devices, destination, beh)
        IN  /\ dispatch' = r.dispatch
            /\ lastCall' = r.call
    /\ UNCHANGED <<listeners, priorities, ae>>
    /\ UNCHANGED notAEVars

\* the transport hands a C-GET to the AE
DimseReceiveGet ==
    /\ lastCall = NoCall
    /\ \E beh \in BehavioursOn(GetChannel) :
        LET r == OnReceiveGet(beh)
        IN  /\ dispatch' = r.dispatch
            /\ lastCall' = r.call
    /\ UNCHANGED <<listeners, priorities, ae>>
    /\ UNCHANGED notAEVars

\* the transport hands a Storage Commitment request to the AE
DimseCommitmentRequest ==
    /\ lastCall = NoCall
    /\ \E remote_ae \in Destinations : \E beh \in BehavioursOn(CommitmentChannel) :
        LET r == OnCommitmentRequest(devices, remote_ae, beh)
        IN  /\ dispatch' = r.dispatch
            /\ lastCall' = r.call
    /\ UNCHANGED <<listeners, priorities, ae>>
    /\ UNCHANGED notAEVars

\* AE.__init__ and Devices.__init__ on a new bus
InitDimse ==
    /\ listeners = DictSet([ch \in DefaultChannels |-> <<>>], "get-main-aet", <<GetMainAet>>)
    /\ priorities = [k \in {<<"get-main-aet", GetMainAet>>} |-> DefaultPriority]
    /\ dispatch = NoDispatch
    /\ AEInit
    /\ \E configured \in BOOLEAN :
        devices = NewDevices([configured |-> configured, auto_add |-> TRUE,
                              default_port |-> DefaultPort])
    /\ devicesCfg = [auto_add |-> TRUE, default_port |-> DefaultPort]
    /\ lastDev = NoDev
    /\ regThreads = [t \in Threads |-> IdleThread]
    /\ lookups = <<>>
    /\ StorageInit /\ IndexInit /\ FlowInit /\ MoveInit /\ FsInit /\ QueryInit

NextDimse ==
    \/ DimseSubscribe
    \/ AEReceiveStore
    \/ DimseReceiveFind
    \/ DimseReceiveMove
    \/ DimseReceiveGet
    \/ DimseCommitmentRequest
    \/ AEReturn

SpecDimse == InitDimse /\ [][NextDimse]_vars

(***************************************************************************)
(* Claims about the handling of requests by the AE, under SpecDimse        *)
(***************************************************************************)
\* the callback's broadcast called a handler that raised
HandlerRaised == \E h \in Handlers : dispatch.raised = ErrorOf(h)

\* C21: an exception a handler raises while the AE handles STORE, FIND, MOVE,
\* GET or COMMITMENT, the exception raised while the results of a FIND
\* handler are consumed included, reaches the transport only as an
\* EventHandlingError: the callback never ends with a handler's own exception,
\* and ends with EventHandlingError when a handler raised.
C21_HandlerErrorsWrapped ==
    lastCall.op \in {"store", "find", "move", "get", "commitment"} =>
        /\ \A h \in Handlers : lastCall.raised # ErrorOf(h)
        /\ HandlerRaised => lastCall.raised = <<"EventHandlingError">>

\* C22: a C-MOVE or Storage Commitment request whose target AE title is not
\* in the device registry ends with an EventHandlingError, and neither MOVE
\* nor COMMITMENT is broadcast: no handler is called.
C22_UnknownDestination ==
    (lastCall.op \in {"move", "commitment"} /\ lastCall.destination \notin DOMAIN devices) =>
        /\ lastCall.raised = <<"EventHandlingError">>
        /\ lastCall.broadcasts = <<>>
        /\ dispatch = NoDispatch

\* C22's case: a C-MOVE to a title the registry does not hold, while the
\* registry holds another device and a handler is subscribed to MOVE, ended
\* with the error and the handler was not called
C22_Witness ==
    /\ lastCall.op = "move"
    /\ lastCall.destination = <<"X">>
    /\ RemotePacs \in DOMAIN devices
    /\ ListenerSet(MoveChannel) # {}
    /\ lastCall.raised = <<"EventHandlingError">>
    /\ dispatch.calls = <<>>

(***************************************************************************)
(* SpecDevices: a Devices component with any configuration, and the events *)
(* the bus delivers to it, one at a time: ASSOC for each association the   *)
(* AE has accepted, DEVICE_BY_AE for each lookup                           *)
(***************************************************************************)
\* ASSOC: Devices.add_device_from_asce is subscribed to it when auto_add is
\* on (devices.py:23-24); otherwise Devices has no handler on the channel
DevAssoc ==
    /\ lastDev = NoDev
    /\ \E calling \in CallingTitles, remote_addr \in ClientAddresses :
        /\ devices' = IF devicesCfg.auto_add
                      THEN AddDeviceFromAsce(devices, devicesCfg, remote_addr, calling)
                      ELSE devices
        /\ lastDev' = [NewDev("assoc") EXCEPT !.title = calling, !.address = remote_addr]
    /\ UNCHANGED <<devicesCfg, regThreads, lookups>>
    /\ UNCHANGED notDevVars

\* DEVICE_BY_AE: Devices.device_by_ae
DevLookup ==
    /\ lastDev = NoDev
    /\ \E title \in LookupTitles :
        lastDev' = [NewDev("lookup") EXCEPT !.title = title,
                                            !.returned = DeviceByAe(devices, title)]
    /\ UNCHANGED <<devices, devicesCfg, regThreads, lookups>>
    /\ UNCHANGED notDevVars

\* the handler has returned to the bus
DevReturn ==
    /\ lastDev # NoDev
    /\ lastDev' = NoDev
    /\ UNCHANGED <<devices, devicesCfg, regThreads, lookups>>
    /\ UNCHANGED notDevVars

\* Devices.__init__(bus, config)
InitDevices ==
    /\ \E config \in DevicesConfigs :
        /\ devices = NewDevices(config)
        /\ devicesCfg = [auto_add |-> config.auto_add, default_port |-> config.default_port]
    /\ lastDev = NoDev
    /\ regThreads = [t \in Threads |-> IdleThread]
    /\ lookups = <<>>
    /\ BusInit /\ StorageInit /\ IndexInit /\ FlowInit /\ MoveInit /\ AEInit /\ FsInit /\ QueryInit

NextDevices ==
    \/ DevAssoc
    \/ DevLookup
    \/ DevReturn

SpecDevices == InitDevices /\ [][NextDevices]_vars

(***************************************************************************)
(* Claims about the device registry, under SpecDevices                     *)
(***************************************************************************)
\* C24: with auto-add on, an accepted association from a calling AE title
\* (blanks around it apart) that is not in the registry adds the entry
\* {title, source address, default port}, which DEVICE_BY_AE(title) returns
\* from then on; an association from a title that is known, configured or
\* learned earlier, leaves the registry unchanged; with auto-add off no
\* association changes the registry; and a lookup changes nothing.
C24_DeviceAutoLearn ==
    [][/\ lastDev'.op = "assoc" =>
            LET title == Strip(lastDev'.title)
                entry == [aet |-> title, address |-> lastDev'.address,
                          port |-> devicesCfg.default_port]
            IN  IF devicesCfg.auto_add /\ title \notin DOMAIN devices
                THEN /\ DOMAIN devices' = DOMAIN devices \cup {title}
                     /\ \A t \in DOMAIN devices : devices'[t] = devices[t]
                     /\ DeviceByAe(devices', title) = <<entry>>
                ELSE devices' = devices
       /\ lastDev'.op = "lookup" =>
            /\ devices' = devices
            /\ \A t \in DOMAIN devices :
                   lastDev'.title = t => lastDev'.returned = <<devices[t]>>
      ]_vars

\* C24's case: a title was learned from an association, a second association
\* with that title came from another address, and DEVICE_BY_AE returns the
\* entry learned first, next to the configured device
C24_Witness ==
    /\ lastDev.op = "lookup"
    /\ lastDev.title = Modality
    /\ lastDev.returned # NoneV
    /\ RemotePacs \in DOMAIN devices
    /\ Modality \in DOMAIN devices
    /\ devices[Modality].address = "10.0.0.2"
    /\ devices[Modality].port = 104
    /\ lastDev.returned = <<devices[Modality]>>

(***************************************************************************)
(* SpecRegistry: a Devices component with auto_add on, and associations    *)
(* served by threads that run at the same time.  A thread is in            *)
(* add_device_from_asce either before the test `calling_ae_title in        *)
(* self.devices` or between the test and the assignment to                 *)
(* self.devices[calling_ae_title]; DEVICE_BY_AE is looked up by any thread *)
(* at any time.                                                            *)
(***************************************************************************)
\* add_device_from_asce up to the test (devices.py:55-58)
RegCheck(t) ==
    /\ regThreads[t].pc = "idle"
    /\ \E calling \in CallingTitles, remote_addr \in ClientAddresses :
        regThreads' = [regThreads EXCEPT ![t] =
            IF Strip(calling) \in DOMAIN devices THEN IdleThread
            ELSE [pc |-> "insert", title |-> Strip(calling), address |-> remote_addr]]
    /\ lastDev' = NewDev("assoc")
    /\ UNCHANGED <<devices, devicesCfg, lookups>>
    /\ UNCHANGED notDevVars

\* add_device_from_asce after the test (devices.py:59-67)
RegInsert(t) ==
    /\ regThreads[t].pc = "insert"
    /\ devices' = DictSet(devices, regThreads[t].title,
                          LearnedEntry(devicesCfg, regThreads[t].address, regThreads[t].title))
    /\ regThreads' = [regThreads EXCEPT ![t] = IdleThread]
    /\ lastDev' = NewDev("assoc")
    /\ UNCHANGED <<devicesCfg, lookups>>
    /\ UNCHANGED notDevVars

\* DEVICE_BY_AE
RegLookup ==
    /\ \E title \in LookupTitles :
        LET r == DeviceByAe(devices, title)
            seen == IF title \in DOMAIN lookups THEN lookups[title] ELSE {}
        IN  /\ lastDev' = [NewDev("lookup") EXCEPT !.title = title, !.returned = r]
            /\ lookups' = IF r = NoneV THEN lookups
                          ELSE DictSet(lookups, title, seen \cup {r[1]})
    /\ UNCHANGED <<devices, devicesCfg, regThreads>>
    /\ UNCHANGED notDevVars

InitRegistry ==
    /\ \E config \in DevicesConfigs :
        /\ config.auto_add
        /\ devices = NewDevices(config)
        /\ devicesCfg = [auto_add |-> config.auto_add, default_port |-> config.default_port]
    /\ lastDev = NoDev
    /\ regThreads = [t \in Threads |-> IdleThread]
    /\ lookups = <<>>
    /\ BusInit /\ StorageInit /\ IndexInit /\ FlowInit /\ MoveInit /\ AEInit /\ FsInit /\ QueryInit

NextRegistry ==
    \/ \E t \in Threads : RegCheck(t)
    \/ \E t \in Threads : RegInsert(t)
    \/ RegLookup

SpecRegistry == InitRegistry /\ [][NextRegistry]_vars

(***************************************************************************)
(* Claims about the device registry under concurrency, under SpecRegistry  *)
(***************************************************************************)
\* C25: when associations are handled in parallel, once DEVICE_BY_AE(title)
\* has returned an endpoint every later lookup of that title returns the same
\* endpoint: all the entries the lookups of one title have returned are one.
C25_RegistryStable ==
    \A title \in DOMAIN lookups : Cardinality(lookups[title]) <= 1

(***************************************************************************)
(* SpecFs: a FileStorage whose dated folder exists or not, and C-STOREs    *)
(* whose ON_GET_FILE is served by threads that run at the same time.  A    *)
(* call of on_get_file is before get_file_name, between get_file_name and  *)
(* open, or between open and new_file.                                     *)
(***************************************************************************)
\* on_get_file up to the return of get_file_name (storage.py:142-149)
FsGetFileName(t) ==
    /\ fsThreads[t].pc = "idle"
    /\ Cardinality(DOMAIN fsFiles) < MaxFiles
    /\ \E uid \in SopUids, cls \in SopClasses :
        fsThreads' = [fsThreads EXCEPT ![t] =
            [pc |-> "named", uid |-> uid, cls |-> cls,
             full_name |-> GetFileName(fsFiles, uid), raised |-> NoError]]
    /\ UNCHANGED <<fsFolder, fsFiles, storageVars>>
    /\ UNCHANGED <<busVars, indexVars, flowVars, moveVars, aeVars, devVars, queryVars>>

\* ds = open(full_name, 'wb') (storage.py:151): FileNotFoundError when the
\* folder does not exist
FsOpen(t) ==
    /\ fsThreads[t].pc = "named"
    /\ IF fsFolder
       THEN /\ fsFiles' = OpenForWriting(fsFiles, fsThreads[t].full_name, t)
            /\ fsThreads' = [fsThreads EXCEPT ![t].pc = "opened"]
       ELSE /\ fsFiles' = fsFiles
            /\ fsThreads' = [fsThreads EXCEPT ![t].pc = "done",
                                              ![t].raised = <<"FileNotFoundError">>]
    /\ UNCHANGED <<fsFolder, storageVars>>
    /\ UNCHANGED <<busVars, indexVars, flowVars, moveVars, aeVars, devVars, queryVars>>

\* write_meta and self.new_file(...) (storage.py:152-160)
FsNewFile(t) ==
    /\ fsThreads[t].pc = "opened"
    /\ LET r == NewFile(St, fsThreads[t].uid, fsThreads[t].cls, fsThreads[t].full_name)
       IN  /\ SetSt(r.st)
           /\ fsThreads' = [fsThreads EXCEPT ![t].pc = "done", ![t].raised = r.raised]
    /\ UNCHANGED <<fsFolder, fsFiles, doneFired, lastEvent>>
    /\ UNCHANGED <<busVars, indexVars, flowVars, moveVars, aeVars, devVars, queryVars>>

\* on_get_file has returned or raised
FsReturn(t) ==
    /\ fsThreads[t].pc = "done"
    /\ fsThreads' = [fsThreads EXCEPT ![t] = IdleCall]
    /\ UNCHANGED <<fsFolder, fsFiles, storageVars>>
    /\ UNCHANGED <<busVars, indexVars, flowVars, moveVars, aeVars, devVars, queryVars>>

InitFs ==
    /\ fsFolder \in BOOLEAN
    /\ fsFiles = <<>>
    /\ fsThreads = [t \in Threads |-> IdleCall]
    /\ BusInit /\ StorageInit /\ IndexInit /\ FlowInit /\ MoveInit /\ AEInit /\ DevInit /\ QueryInit

NextFs ==
    \/ \E t \in Threads : FsGetFileName(t)
    \/ \E t \in Threads : FsOpen(t)
    \/ \E t \in Threads : FsNewFile(t)
    \/ \E t \in Threads : FsReturn(t)

SpecFs == InitFs /\ [][NextFs]_vars

(***************************************************************************)
(* Claims about FileStorage under concurrency, under SpecFs                *)
(***************************************************************************)
\* C26: under any interleaving of concurrent ON_GET_FILE calls on the
\* filesystem backend, calls for one SOPInstanceUID included, no two calls
\* open the same path for writing and no call opens a path that holds an
\* earlier artifact: every path was opened for writing by one call.
C26_LocatorRaceFree ==
    \A path \in DOMAIN fsFiles : Len(fsFiles[path]) <= 1

(***************************************************************************)
(* SpecFilters: the text filter and the date filter of a C-FIND key, each  *)
(* applied to any stored value and any value of the request                *)
(***************************************************************************)
\* the values a text column holds; <<>> is NULL
TextColumns == Optional(SeqsUpTo(TextChars, MaxTextLen))

\* the single values of a text key: <<>> is the empty element
TextValues == SeqsUpTo(PatternChars, MaxTextLen)

\* the dates: DateLen digits
Dates == [1..DateLen -> Digits]

DateColumns == Optional(Dates)

\* the values of a DA key: a date, a range with either end open or not, and
\* a value with two hyphens
DateValues ==
    Dates \cup {start \o <<"-">> \o end : start, end \in Dates \cup {<<>>}}
          \cup {d \o <<"-">> \o d \o <<"-">> \o d : d \in Dates}

\* a C-FIND with a text key on a row whose column holds `column`
FilterText ==
    /\ lastQuery = NoQuery
    /\ \E column \in TextColumns, value \in TextValues :
           lastQuery' = [NewQuery("text_filter") EXCEPT
                            !.column = column, !.value = value,
                            !.matched = BuildTextFilter(column, value)]
    /\ UNCHANGED <<busVars, storageVars, indexVars, flowVars, moveVars, aeVars, devVars, fsVars>>

\* a C-FIND with a DA key on a row whose column holds `column`
FilterDate ==
    /\ lastQuery = NoQuery
    /\ \E column \in DateColumns, value \in DateValues :
           LET r == DateFilter(column, value)
           IN  lastQuery' = [NewQuery("date_filter") EXCEPT
                                !.column = column, !.value = value,
                                !.matched = r.matched, !.raised = r.raised]
    /\ UNCHANGED <<busVars, storageVars, indexVars, flowVars, moveVars, aeVars, devVars, fsVars>>

\* the query has been answered
FilterReturn ==
    /\ lastQuery # NoQuery
    /\ lastQuery' = NoQuery
    /\ UNCHANGED <<busVars, storageVars, indexVars, flowVars, moveVars, aeVars, devVars, fsVars>>

InitFilters == BusInit /\ StorageInit /\ IndexInit /\ FlowInit /\ MoveInit /\ AEInit /\ DevInit /\ FsInit /\ QueryInit

NextFilters ==
    \/ FilterText
    \/ FilterDate
    \/ FilterReturn

SpecFilters == InitFilters /\ [][NextFilters]_vars

(***************************************************************************)
(* Claims about the filters, under SpecFilters                             *)
(***************************************************************************)
\* the pattern of the claim: '*' stands for any sequence of characters, '?'
\* for one character, any other character for itself
RECURSIVE WildcardMatch(_, _)
WildcardMatch(text, pattern) ==
    IF pattern = <<>> THEN text = <<>>
    ELSE IF Head(pattern) = "*"
         THEN \E k \in 0..Len(text) :
                  WildcardMatch(SubSeq(text, k + 1, Len(text)), Tail(pattern))
         ELSE /\ text # <<>>
              /\ Head(pattern) = "?" \/ Head(pattern) = Head(text)
              /\ WildcardMatch(Tail(text), Tail(pattern))

\* C32: a single-valued text filter matches a stored value exactly when the
\* value matches the pattern in which '*' is any sequence of characters, '?'
\* any one character and every other character itself, compared
\* case-sensitively; an empty request element matches every row.
C32_WildcardSemantics ==
    lastQuery.op = "text_filter" =>
        IF lastQuery.value = <<>> THEN lastQuery.matched
        ELSE lastQuery.column # NoneV =>
                 (lastQuery.matched <=> WildcardMatch(lastQuery.column[1], lastQuery.value))

\* the number a date stands for
RECURSIVE DateNumber(_)
DateNumber(d) ==
    IF d = <<>> THEN 0
    ELSE 10 * DateNumber(SubSeq(d, 1, Len(d) - 1)) + (Ord(d[Len(d)]) - 1)

\* the DA values of the form start-end and of the form of one date
IsDateRange(value) ==
    /\ Len(value) = 2 * DateLen + 1
    /\ value[DateLen + 1] = "-"
    /\ \A i \in DOMAIN value : i # DateLen + 1 => value[i] \in Digits

IsSingleDate(value) == value \in Dates

\* C33: a DA filter 'start-end' matches a stored date d exactly when
\* start <= d <= end, both bounds included, and a DA filter without a hyphen
\* matches exactly when d is the date of the filter.
C33_DateRangeSemantics ==
    (lastQuery.op = "date_filter" /\ lastQuery.column # NoneV) =>
        LET d == lastQuery.column[1]
            value == lastQuery.value
        IN  /\ IsDateRange(value) =>
                   /\ lastQuery.raised = NoError
                   /\ lastQuery.matched <=>
                          /\ DateNumber(SubSeq(value, 1, DateLen)) <= DateNumber(d)
                          /\ DateNumber(d) <= DateNumber(SubSeq(value, DateLen + 2, Len(value)))
            /\ IsSingleDate(value) =>
                   /\ lastQuery.raised = NoError
                   /\ lastQuery.matched <=> (d = value)

\* C33's case: a range whose end is the stored date and whose start is an
\* earlier date matched it
C33_Witness ==
    /\ lastQuery.op = "date_filter"
    /\ lastQuery.column # NoneV
    /\ IsDateRange(lastQuery.value)
    /\ SubSeq(lastQuery.value, DateLen + 2, Len(lastQuery.value)) = lastQuery.column[1]
    /\ SubSeq(lastQuery.value, 1, DateLen) # lastQuery.column[1]
    /\ lastQuery.matched

(***************************************************************************)
(* SpecRetrieve: the entity tables filled by C-STOREs, and the instances of *)
(* a C-MOVE or C-GET request resolved on them at any level                 *)
(***************************************************************************)
\* the datasets stored: every attribute the index needs is present
QueryDatasets ==
    {Dataset(<<p>>, NoneV, <<study>>, <<series>>, <<sop>>, NoneV) :
        p \in PatientIds, study \in StudyUids, series \in SeriesUids, sop \in IndexSopUids}

\* a UID key of a retrieve request: absent, one UID or a list of UIDs
UidKeys == Optional({{1}, {1, 2}})

\* the identifiers of C-MOVE and C-GET requests
RetrieveRequests ==
    [QueryRetrieveLevel : {"PATIENT", "STUDY", "SERIES", "IMAGE"},
     PatientID : Optional(PatientIds), StudyInstanceUID : UidKeys,
     SeriesInstanceUID : UidKeys, SOPInstanceUID : UidKeys]

\* PACS.c_store of a dataset received
QueryCStore ==
    /\ lastQuery = NoQuery
    /\ \E ds \in QueryDatasets :
        LET r == CStore(Idx, ds)
        IN  /\ SetIdx(r.idx)
            /\ lastQuery' = [NewQuery("c_store") EXCEPT !.raised = r.raised]
    /\ UNCHANGED lastStore
    /\ UNCHANGED <<busVars, storageVars, flowVars, moveVars, aeVars, devVars, fsVars>>

\* PACS.c_move_get_instances, consumed by on_move or on_get
RetrieveInstances ==
    /\ lastQuery = NoQuery
    /\ \E rq \in RetrieveRequests :
        LET r == CMoveGetInstances(Idx, rq)
        IN  lastQuery' = [NewQuery("c_move_get_instances") EXCEPT
                             !.request = <<rq>>, !.rows = r.instances, !.raised = r.raised]
    /\ UNCHANGED <<busVars, storageVars, indexVars, flowVars, moveVars, aeVars, devVars, fsVars>>

\* the request has been answered
QueryReturn ==
    /\ lastQuery # NoQuery
    /\ lastQuery' = NoQuery
    /\ UNCHANGED <<busVars, storageVars, indexVars, flowVars, moveVars, aeVars, devVars, fsVars>>

InitRetrieve == BusInit /\ StorageInit /\ IndexInit /\ FlowInit /\ MoveInit /\ AEInit /\ DevInit /\ FsInit /\ QueryInit

NextRetrieve ==
    \/ QueryCStore
    \/ RetrieveInstances
    \/ QueryReturn

SpecRetrieve == InitRetrieve /\ [][NextRetrieve]_vars

(***************************************************************************)
(* Claims about the instances of a retrieve request, under SpecRetrieve    *)
(***************************************************************************)
\* the indexed instances with the identifiers of their series, study and
\* patient: <<patient_id, study_instance_uid, series_instance_uid, sop_instance_uid>>
IndexedInstances ==
    {<<st.patient, st.study_instance_uid, se.series_instance_uid, i.sop_instance_uid>> :
        <<i, se, st>> \in {t \in instanceRows \X seriesRows \X studyRows :
                              /\ t[1].series = t[2].series_instance_uid
                              /\ t[2].study = t[3].study_instance_uid}}

\* C36: at level L the instances resolved for a C-MOVE or C-GET are exactly
\* the indexed instances that pass every applicable identifier filter:
\* PatientID equal when L is PATIENT or the key is present below it,
\* StudyInstanceUID among the requested when L is STUDY or the key is present
\* below it, SeriesInstanceUID likewise for SERIES, SOPInstanceUID at IMAGE.
C36_MoveInstancesByRank ==
    (lastQuery.op = "c_move_get_instances" /\ lastQuery.raised = NoError) =>
        LET rq == lastQuery.request[1]
            L == rq.QueryRetrieveLevel
            byPatient == L = "PATIENT" \/ rq.PatientID # NoneV
            byStudy == L = "STUDY" \/ (L \in {"SERIES", "IMAGE"} /\ rq.StudyInstanceUID # NoneV)
            bySeries == L = "SERIES" \/ (L = "IMAGE" /\ rq.SeriesInstanceUID # NoneV)
            byImage == L = "IMAGE"
        IN  lastQuery.rows =
                {<<t[2], t[3], t[4]>> :
                    t \in {x \in IndexedInstances :
                            /\ byPatient => x[1] = rq.PatientID[1]
                            /\ byStudy => x[2] \in rq.StudyInstanceUID[1]
                            /\ bySeries => x[3] \in rq.SeriesInstanceUID[1]
                            /\ byImage => x[4] \in rq.SOPInstanceUID[1]}}

\* C36's case: an IMAGE-level request with a PatientID and a list of SOP
\* instance UIDs, on an index where another patient has an instance on the list
C36_Witness ==
    /\ lastQuery.op = "c_move_get_instances"
    /\ lastQuery.raised = NoError
    /\ lastQuery.request[1].QueryRetrieveLevel = "IMAGE"
    /\ lastQuery.request[1].PatientID # NoneV
    /\ lastQuery.request[1].SOPInstanceUID = <<{1, 2}>>
    /\ Cardinality(lastQuery.rows) = 1
    /\ Cardinality(instanceRows) = 2

(***************************************************************************)
(* SpecFind: the entity tables filled by C-STOREs, and C-FIND requests at  *)
(* PATIENT, STUDY and SERIES level resolved on them                        *)
(***************************************************************************)
\* the keywords of the requests, and the values each is given; <<>> is the
\* element without value
FindKeys ==
    {"PatientID", "StudyInstanceUID", "SeriesInstanceUID", "PatientSize", "SeriesNumber",
     "InstitutionName", "NumberOfPatientRelatedStudies", "NumberOfPatientRelatedSeries",
     "NumberOfStudyRelatedSeries", "NumberOfSeriesRelatedInstances"}

KeyValues(key) ==
    IF key \in {"PatientID", "StudyInstanceUID", "SeriesInstanceUID"} THEN {<<>>, <<1>>}
    ELSE IF key \in {"PatientSize", "SeriesNumber"} THEN {<<>>, <<0>>, <<1>>}
    ELSE {<<>>}

FindRequests ==
    {[QueryRetrieveLevel |-> level, elems |-> elems] :
        level \in {"PATIENT", "STUDY", "SERIES"},
        elems \in UNION {{e \in [keys -> UNION {KeyValues(k) : k \in keys}] :
                             \A k \in keys : e[k] \in KeyValues(k)} :
                         keys \in {ks \in SUBSET FindKeys : Cardinality(ks) <= MaxKeys}}}

\* PACS.c_find, consumed to the end by the caller
FindCFind ==
    /\ lastQuery = NoQuery
    /\ \E rq \in FindRequests :
        \E r \in CFindOutcomes(Idx, rq) :
            lastQuery' = [NewQuery("c_find") EXCEPT
                             !.request = <<rq>>, !.rows = r.rows, !.raised = r.raised]
    /\ UNCHANGED <<busVars, storageVars, indexVars, flowVars, moveVars, aeVars, devVars, fsVars>>

InitFind == BusInit /\ StorageInit /\ IndexInit /\ FlowInit /\ MoveInit /\ AEInit /\ DevInit /\ FsInit /\ QueryInit

NextFind ==
    \/ QueryCStore
    \/ FindCFind
    \/ QueryReturn

SpecFind == InitFind /\ [][NextFind]_vars

(***************************************************************************)
(* Claims about C-FIND, under SpecFind                                     *)
(***************************************************************************)
\* the tags of the request dataset
RequestTags(rq) == DOMAIN rq.elems \cup {"QueryRetrieveLevel"}

\* C31: every tag present in the request, QueryRetrieveLevel and the count
\* tags included, at any level, is present in every response row (with a
\* value for a mapped attribute, empty for an unmapped one).
C31_FindCompleteness ==
    (lastQuery.op = "c_find" /\ lastQuery.raised = NoError) =>
        \A row \in lastQuery.rows :
            RequestTags(lastQuery.request[1]) \subseteq DOMAIN row.rsp

\* the identifiers of the rows of a level's table
Entities(level) ==
    CASE level = "PATIENT" -> {p.patient_id : p \in patientRows}
      [] level = "STUDY" -> {st.study_instance_uid : st \in studyRows}
      [] level = "SERIES" -> {se.series_instance_uid : se \in seriesRows}

\* the number of child entities a count attribute stands for, for the entity id
Related(key, id) ==
    CASE key = "NumberOfPatientRelatedStudies" ->
            Cardinality({st \in studyRows : st.patient = id})
      [] key = "NumberOfPatientRelatedSeries" ->
            Cardinality({se \in seriesRows :
                \E st \in studyRows : st.patient = id /\ se.study = st.study_instance_uid})
      [] key = "NumberOfStudyRelatedSeries" ->
            Cardinality({se \in seriesRows : se.study = id})
      [] key = "NumberOfSeriesRelatedInstances" ->
            Cardinality({i \in instanceRows : i.series = id})

\* the count attributes of a level
CountKeys(level) ==
    CASE level = "PATIENT" -> {"NumberOfPatientRelatedStudies", "NumberOfPatientRelatedSeries"}
      [] level = "STUDY" -> {"NumberOfStudyRelatedSeries"}
      [] level = "SERIES" -> {"NumberOfSeriesRelatedInstances"}

\* C34: a C-FIND that asks for count attributes of its level (and filters on
\* nothing) returns one row per entity of the level, and each count in a row
\* is the number of child entities of that kind of the row's entity.
C34_CountAttributes ==
    LET rq == lastQuery.request[1]
        counts == DOMAIN rq.elems \cap CountKeys(rq.QueryRetrieveLevel)
    IN  (/\ lastQuery.op = "c_find"
         /\ counts # {}
         /\ \A k \in DOMAIN rq.elems : rq.elems[k] = <<>>) =>
            /\ lastQuery.raised = NoError
            /\ {row.entity : row \in lastQuery.rows} =
                   {<<id>> : id \in Entities(rq.QueryRetrieveLevel)}
            /\ Cardinality(lastQuery.rows) = Cardinality(Entities(rq.QueryRetrieveLevel))
            /\ \A row \in lastQuery.rows : \A k \in counts :
                   /\ k \in DOMAIN row.rsp
                   /\ row.entity # NoneV => row.rsp[k] = <<Related(k, row.entity[1])>>

\* the attributes mapped at a level (its own model's and the upper models')
\* whose VR has no filter
UnsupportedKeys(level) ==
    CASE level = "PATIENT" -> {}
      [] level = "STUDY" -> {"PatientSize"}
      [] level = "SERIES" -> {"PatientSize", "SeriesNumber"}

\* C35: a C-FIND with a non-empty value for a mapped attribute whose VR is
\* no text VR, DA, TM or DT fails with an error and returns no rows; with an
\* empty value the attribute is no filter and does not fail the request.
C35_UnsupportedVR ==
    lastQuery.op = "c_find" =>
        LET rq == lastQuery.request[1]
            valued == {k \in DOMAIN rq.elems \cap UnsupportedKeys(rq.QueryRetrieveLevel) :
                          rq.elems[k] # <<>>}
        IN  /\ valued # {} => (lastQuery.raised # NoError /\ lastQuery.rows = {})
            /\ valued = {} => lastQuery.raised # <<"ValueError">>

====
